---- MODULE Spec2Model ----
(***************************************************************************)
(* State-machine model of flockwave.server.comm: CommunicationManagerEntry *)
(* and CommunicationManager (entry registry, alias table, bounded outbound *)
(* queue with its single dispatcher, inbound links, error throttling).     *)
(***************************************************************************)
EXTENDS Integers, Sequences, FiniteSets, TLC

(* ---------------------------------------------------------------- bounds *)

\* Largest error limit drawn for CommunicationManager.error_limit.
MaxLimit == 3

\* Cap on an entry's consecutive error count (the code's counter is unbounded).
MaxErrors == 5

\* Capacity of the inbound and of the outbound queue in the model (the code
\* opens both with 256 slots).
QueueCapacity == 2

\* Most entries ever registered.
MaxEntries == 2

\* Most messages one entry's channels produce.
MaxMessages == 2

\* Most packets ever submitted.
MaxPackets == 4

\* Most packets submitted while routing is examined one packet at a time.
MaxRoutePackets == 2

(* ------------------------------------------------------------- constants *)

\* CommunicationManager.error_limit as the class sets it.
DefaultErrorLimit == 5

\* ErrorAction enum values.
SKIP_LOGGING == "skipLogging"
LOG_AND_SUSPEND == "logAndSuspend"
LOG == "log"

\* The BROADCAST marker object.
BROADCAST == "BROADCAST"

\* "No channel": CommunicationManagerEntry.channel is None.
None == "None"

\* Channel objects a channel factory can hand out; the ones in
\* BroadcastChannels are instances of BroadcastMessageChannel.
PlainChannels == {"plain1"}
BroadcastChannels == {"bcast1"}
Channels == PlainChannels \cup BroadcastChannels

\* Connection names used for registration.
Names == {"A", "B"}

VARIABLES
    entries,        \* _entries_by_name, flattened: sequence of entry records in
                    \* registration order
    error_limit,    \* CommunicationManager.error_limit
    running,        \* CommunicationManager._running
    log,            \* CommunicationManager.log: None or "logger"
    outbound_tx_queue, \* CommunicationManager._outbound_tx_queue: None or "tx_queue"
    run_state,      \* position of run(): "idle", "running" or "cancelling"
    inbound,        \* per entry: its supervised _run_inbound_link task
    inQ,            \* shared inbound queue (name, message) items
    disp,           \* the dispatcher task (_run_outbound_links)
    broadcast_delay, \* CommunicationManager.broadcast_delay
    aliases,        \* CommunicationManager._aliases: alias -> list of names
    error_counters, \* CommunicationManager._error_counters (absent key: 0)
    outQ,           \* the outbound queue behind _outbound_tx_queue
    ret,            \* what the last operation returned or raised
    emitted,        \* log records written by the last step
    trace,          \* results of notify_error since the count was last zeroed
    prevCount,      \* error count right before the last entry operation
    nextId,         \* number of packets submitted so far (packet identities)
    accepted,       \* ids of the packets accepted into the outbound queue, in order
    handled,        \* ids of the packets the dispatcher started handling, in order
    finished,       \* ids of the packets whose handling has finished, in order
    calls,          \* channel calls made for the packet being handled
    alias_handles,  \* what the callers of add_alias and with_alias still hold
    tasks,          \* the consumer and the auxiliary task run() was given
    failure,        \* the exception run() is unwinding with, if any
    forwarded       \* the items put into the inbound queue during this run, in order

tblVars == <<error_limit, broadcast_delay, aliases, error_counters>>
mgrVars == <<tblVars, running, log, outbound_tx_queue, run_state, outQ>>
obsVars == <<trace, prevCount, nextId, accepted, handled, finished, calls>>
taskVars == <<alias_handles, tasks, failure, forwarded>>
vars == <<entries, error_limit, broadcast_delay, aliases, error_counters,
          running, log, outbound_tx_queue, run_state, outQ,
          inbound, inQ, disp, ret, emitted,
          trace, prevCount, nextId, accepted, handled, finished, calls,
          alias_handles, tasks, failure, forwarded>>

\* A log record.
LogRec(level, msg) == [level |-> level, msg |-> msg]

\* The tasks run() is given besides the supervised connections: the
\* consumer and one auxiliary task; each is "off", "running", "done" (it
\* returned), "failed" or "cancelled".
Tasks == {"consumer", "aux"}
TasksOff == [t \in Tasks |-> "off"]
TasksRunning == [t \in Tasks |-> "running"]

\* Nobody holds a disposer and no with_alias scope is open.
NoHandles == [disposers |-> {}, scopes |-> {}]

(* ------------------------------------------- CommunicationManagerEntry *)

\* A freshly constructed entry (dataclass defaults).
NewEntry(name, can_send) ==
    [name |-> name, can_send |-> can_send, can_broadcast |-> FALSE,
     channel |-> None, error_count |-> 0]

\* CommunicationManagerEntry.is_open
is_open(entry) == entry.channel # None

\* Mutant of notify_error: suspends one error late (>= L+1 instead of == L).
notify_error_late(entry, limit) ==
    LET c == entry.error_count + 1
    IN  [entry  |-> [entry EXCEPT !.error_count = c],
         result |-> IF c > limit + 1 THEN SKIP_LOGGING
                    ELSE IF c = limit + 1 THEN LOG_AND_SUSPEND
                    ELSE LOG]

\* CommunicationManagerEntry.notify_error: the entry after the call and the
\* ErrorAction returned.
notify_error(entry, limit) ==
    LET c == entry.error_count + 1
    IN  [entry  |-> [entry EXCEPT !.error_count = c],
         result |-> IF c > limit THEN SKIP_LOGGING
                    ELSE IF c = limit THEN LOG_AND_SUSPEND
                    ELSE LOG]

\* CommunicationManagerEntry.reset_error_count
reset_error_count(entry) ==
    IF entry.error_count > 0
    THEN [entry |-> [entry EXCEPT !.error_count = 0], result |-> TRUE]
    ELSE [entry |-> entry, result |-> FALSE]

\* Mutant of set_channel: the broadcast flag is raised by a broadcast
\* channel and never lowered again.
set_channel_keeps_flag(entry, channel) ==
    IF entry.channel # channel
    THEN [entry EXCEPT !.channel = channel,
                       !.can_broadcast = @ \/ (channel \in BroadcastChannels),
                       !.error_count = 0]
    ELSE entry

\* Mutant of set_channel: a new channel inherits the error count of the
\* old one.
set_channel_keeps_count(entry, channel) ==
    IF entry.channel # channel
    THEN [entry EXCEPT !.channel = channel,
                       !.can_broadcast = (channel \in BroadcastChannels)]
    ELSE entry

\* CommunicationManagerEntry.set_channel (channel = None: detach_channel)
set_channel(entry, channel) ==
    IF entry.channel # channel
    THEN [entry EXCEPT !.channel = channel,
                       !.can_broadcast = (channel \in BroadcastChannels),
                       !.error_count = 0]
    ELSE entry

\* Mutant of detach_channel: leaves the channel attached.
detach_channel_noop(entry) == entry

\* CommunicationManagerEntry.detach_channel
detach_channel(entry) == set_channel(entry, None)

\* The dispatcher task before it starts and after it ends.
DispOff == [pc |-> "off"]

\* The entry-level operations leave the manager alone.
RestUnchangedEntry ==
    UNCHANGED <<mgrVars, inbound, inQ, disp, emitted, taskVars,
                nextId, accepted, handled, finished, calls>>

(* ------------------------------------- entry-level specification (pure) *)

\* One entry, any error limit >= 1.
InitEntry ==
    /\ entries = <<NewEntry("A", TRUE)>>
    /\ error_limit \in 1..MaxLimit
    /\ ret = [op |-> "init", value |-> None]
    /\ trace = <<>>
    /\ prevCount = 0
    /\ alias_handles = NoHandles /\ tasks = TasksOff /\ failure = None /\ forwarded = <<>>
    /\ running = FALSE /\ log = None /\ outbound_tx_queue = None
    /\ run_state = "idle"
    /\ inbound = <<>> /\ inQ = [data |-> <<>>, waiters |-> <<>>] /\ disp = DispOff
    /\ emitted = <<>>
    /\ broadcast_delay = 0 /\ aliases = <<>> /\ error_counters = <<>>
    /\ outQ = [data |-> <<>>, waiters |-> <<>>]
    /\ nextId = 0 /\ accepted = <<>> /\ handled = <<>> /\ finished = <<>>
    /\ calls = <<>>

\* entry.notify_error(limit)
NotifyError ==
    /\ entries[1].error_count < MaxErrors
    /\ LET r == notify_error(entries[1], error_limit)
       IN  /\ entries' = [entries EXCEPT ![1] = r.entry]
           /\ ret' = [op |-> "notify_error", value |-> r.result]
           /\ trace' = Append(trace, r.result)
    /\ prevCount' = entries[1].error_count
    /\ RestUnchangedEntry

\* entry.reset_error_count()
ResetErrorCount ==
    /\ LET r == reset_error_count(entries[1])
       IN  /\ entries' = [entries EXCEPT ![1] = r.entry]
           /\ ret' = [op |-> "reset_error_count", value |-> r.result]
    /\ trace' = <<>>
    /\ prevCount' = entries[1].error_count
    /\ RestUnchangedEntry

\* entry.set_channel(c) / entry.detach_channel()
SetChannel ==
    \E c \in Channels \cup {None} :
        /\ entries' = [entries EXCEPT ![1] = set_channel(entries[1], c)]
        /\ ret' = [op |-> "set_channel", value |-> c]
        /\ trace' = IF c # entries[1].channel THEN <<>> ELSE trace
        /\ prevCount' = entries[1].error_count
        /\ RestUnchangedEntry

NextEntry == NotifyError \/ ResetErrorCount \/ SetChannel

SpecEntry == InitEntry /\ [][NextEntry]_vars

(* ------------------------------------------------- trio memory channel *)

\* open_memory_channel(256): buffered items plus the senders blocked in send().
EmptyQueue == [data |-> <<>>, waiters |-> <<>>]

\* A task blocked in send() abandons it (an exception or a cancellation).
DropWaiters(q, task) ==
    [q EXCEPT !.waiters = SelectSeq(q.waiters, LAMBDA w : w.task # task)]

\* Mutant of queue_receive: hands out the newest item instead of the oldest.
queue_receive_lifo(q) ==
    LET n == Len(q.data)
        rest == SubSeq(q.data, 1, n - 1)
    IN  IF q.waiters = <<>>
        THEN [item |-> q.data[n], queue |-> [q EXCEPT !.data = rest], woken |-> <<>>]
        ELSE [item |-> q.data[n],
              queue |-> [data |-> Append(rest, Head(q.waiters).item),
                         waiters |-> Tail(q.waiters)],
              woken |-> <<Head(q.waiters)>>]

\* Receiving from a non-empty memory channel: the oldest item is handed out
\* and the longest-blocked sender, if any, gets its item buffered and wakes.
queue_receive(q) ==
    IF q.waiters = <<>>
    THEN [item |-> Head(q.data), queue |-> [q EXCEPT !.data = Tail(@)],
          woken |-> <<>>]
    ELSE [item |-> Head(q.data),
          queue |-> [data |-> Append(Tail(q.data), Head(q.waiters).item),
                     waiters |-> Tail(q.waiters)],
          woken |-> <<Head(q.waiters)>>]

(* ------------------------------------------------ CommunicationManager *)

\* Indexes of the entries registered under a name, in registration order
\* (_entries_by_name.get(name)).
EntriesOf(name) == {i \in 1..Len(entries) : entries[i].name = name}

\* CommunicationManager.is_channel_open
is_channel_open(name) ==
    IF EntriesOf(name) = {} THEN FALSE
    ELSE \E i \in EntriesOf(name) : is_open(entries[i])

\* An inbound task that the supervisor has not (re)started; seq counts the
\* messages the entry's channels have produced.
InboundStopped(seq) == [pc |-> "stopped", seq |-> seq]

\* Mutant of add: registers even while the manager is running.
add_unguarded(es, isRunning, name, can_send) ==
    [entries |-> Append(es, NewEntry(name, can_send)), raised |-> None]

\* CommunicationManager.add: the registry after the call and what it raised.
add(es, isRunning, name, can_send) ==
    IF isRunning
    THEN [entries |-> es, raised |-> "RuntimeError"]
    ELSE [entries |-> Append(es, NewEntry(name, can_send)), raised |-> None]

\* manager.add(connection, name=..., can_send=...); can_send=None is settled
\* by the connection's capabilities, to either value.
Add ==
    \E name \in Names, can_send \in BOOLEAN :
        /\ running \/ Len(entries) < MaxEntries
        /\ LET r == add(entries, running, name, can_send)
           IN  /\ entries' = r.entries
               /\ inbound' = IF Len(r.entries) > Len(entries)
                             THEN Append(inbound, InboundStopped(0))
                             ELSE inbound
               /\ ret' = [op |-> "add", value |-> r.raised]
        /\ emitted' = <<>>
        /\ UNCHANGED <<mgrVars, inQ, disp, obsVars, taskVars>>

\* run(): the try block up to the start of the tasks.
RunStart ==
    /\ run_state = "idle"
    /\ running' = TRUE
    /\ log' = "logger"
    /\ run_state' = "running"
    /\ inQ' = EmptyQueue
    /\ tasks' = TasksRunning
    /\ failure' = None
    /\ inbound' = [i \in 1..Len(inbound) |-> InboundStopped(0)]
    /\ forwarded' = <<>>
    /\ ret' = [op |-> "run", value |-> "started"]
    /\ emitted' = <<>>
    /\ UNCHANGED <<entries, tblVars, outbound_tx_queue, outQ, disp, obsVars,
                   alias_handles>>

\* The run is cancelled from outside: Cancelled is raised in every task and
\* leaves run() once all of them have unwound.
Cancel ==
    /\ run_state = "running"
    /\ run_state' = "cancelling"
    /\ failure' = "Cancelled"
    /\ ret' = [op |-> "run", value |-> "cancelling"]
    /\ emitted' = <<>>
    /\ UNCHANGED <<entries, tblVars, running, log, outbound_tx_queue, outQ,
                   inbound, inQ, disp, obsVars, alias_handles, tasks, forwarded>>

\* The consumer or the auxiliary task returns: wait_all keeps waiting for
\* the others.  A consumer may close its end of the inbound queue on the
\* way out ("closed").
TaskReturn(t) ==
    /\ run_state = "running"
    /\ tasks[t] = "running"
    /\ \E how \in (IF t = "consumer" THEN {"done", "closed"} ELSE {"done"}) :
           tasks' = [tasks EXCEPT ![t] = how]
    /\ ret' = [op |-> t, value |-> None]
    /\ emitted' = <<>>
    /\ UNCHANGED <<entries, mgrVars, inbound, inQ, disp, obsVars, alias_handles, failure, forwarded>>

\* The consumer or the auxiliary task raises: wait_all cancels the other
\* tasks and will raise the exception out of run().
TaskFail(t) ==
    /\ run_state = "running"
    /\ tasks[t] = "running"
    /\ tasks' = [tasks EXCEPT ![t] = "failed"]
    /\ failure' = "Error in " \o t
    /\ run_state' = "cancelling"
    /\ ret' = [op |-> t, value |-> "Error in " \o t]
    /\ emitted' = <<>>
    /\ UNCHANGED <<entries, tblVars, running, log, outbound_tx_queue, outQ,
                   inbound, inQ, disp, obsVars, alias_handles, forwarded>>

\* The supervisor of an entry raises between two runs of the inbound task:
\* the same, with the supervisor's exception.
SupervisorFail(i) ==
    /\ run_state = "running"
    /\ inbound[i].pc = "stopped"
    /\ failure' = "Error in supervisor"
    /\ run_state' = "cancelling"
    /\ ret' = [op |-> "supervisor", value |-> "Error in supervisor"]
    /\ emitted' = <<>>
    /\ UNCHANGED <<entries, tblVars, running, log, outbound_tx_queue, outQ,
                   inbound, inQ, disp, obsVars, alias_handles, tasks, forwarded>>

\* Cancellation reaches the consumer or the auxiliary task.
TaskCancelled(t) ==
    /\ run_state = "cancelling"
    /\ tasks[t] = "running"
    /\ tasks' = [tasks EXCEPT ![t] = "cancelled"]
    /\ ret' = [op |-> t, value |-> "Cancelled"]
    /\ emitted' = <<>>
    /\ UNCHANGED <<entries, mgrVars, inbound, inQ, disp, obsVars, alias_handles, failure, forwarded>>

\* Mutant of RunEnd: run() returns as soon as the dispatcher and the inbound
\* tasks are done, without waiting for the consumer and the auxiliary task.
RunEndWithoutJoin ==
    /\ run_state = "cancelling"
    /\ disp.pc = "off"
    /\ \A i \in 1..Len(inbound) : inbound[i].pc = "stopped"
    /\ running' = FALSE
    /\ log' = None
    /\ run_state' = "idle"
    /\ inQ' = EmptyQueue
    /\ failure' = None
    /\ ret' = [op |-> "run", value |-> failure]
    /\ emitted' = <<>>
    /\ UNCHANGED <<entries, tblVars, outbound_tx_queue, outQ, inbound, disp, obsVars,
                   alias_handles, tasks, forwarded>>

\* wait_all has seen every task end: _run closes the inbound queue on the
\* way out, the finally block of run() clears the logger and the running
\* flag, and the exception that ended the run leaves run().
RunEnd ==
    /\ run_state = "cancelling"
    /\ disp.pc = "off"
    /\ \A i \in 1..Len(inbound) : inbound[i].pc = "stopped"
    /\ \A t \in Tasks : tasks[t] # "running"
    /\ running' = FALSE
    /\ log' = None
    /\ run_state' = "idle"
    /\ inQ' = EmptyQueue
    /\ tasks' = TasksOff
    /\ failure' = None
    /\ ret' = [op |-> "run", value |-> failure]
    /\ emitted' = <<>>
    /\ UNCHANGED <<entries, tblVars, outbound_tx_queue, outQ, inbound, disp, obsVars,
                   alias_handles, forwarded>>

(* ----------------------------------------------------- _run_inbound_link *)

\* Mutant of failure_log: the connection is reported down whether or not a
\* channel had been created.
failure_log_always_down(ex, channel_created) ==
    (IF ex \notin {"BrokenResourceError", "ClosedResourceError"}
     THEN <<LogRec("exception", "inbound link failed")>> ELSE <<>>)
    \o <<LogRec("warning", "Connection down, trying to reopen...")>>

\* The except block of _run_inbound_link: the exception is logged unless it
\* says that a channel is closed or broken, and the connection is reported
\* down if the channel had been created.
failure_log(ex, channel_created) ==
    (IF ex \notin {"BrokenResourceError", "ClosedResourceError"}
     THEN <<LogRec("exception", "inbound link failed")>> ELSE <<>>)
    \o (IF channel_created
        THEN <<LogRec("warning", "Connection down, trying to reopen...")>> ELSE <<>>)

\* The supervisor calls the task and the channel factory (or the assertion
\* on its result) raises: nothing was attached, the finally block detaches.
InboundFactoryFail(i) ==
    \E ex \in {"Exception", "BrokenResourceError"} :
        /\ run_state = "running"
        /\ inbound[i].pc = "stopped"
        /\ entries' = [entries EXCEPT ![i] = detach_channel(@)]
        /\ inbound' = inbound
        /\ emitted' = failure_log(ex, FALSE)
        /\ ret' = [op |-> "inbound", value |-> "failed"]
        /\ UNCHANGED <<mgrVars, inQ, disp, obsVars, taskVars>>

\* The supervisor calls the task and the factory returns a channel.
InboundOpen(i) ==
    \E c \in Channels :
        /\ run_state = "running"
        /\ inbound[i].pc = "stopped"
        /\ entries' = [entries EXCEPT ![i] = set_channel(@, c)]
        /\ inbound' = [inbound EXCEPT ![i].pc = "reading"]
        /\ emitted' = <<LogRec("info", "Connection up and running")>>
        /\ ret' = [op |-> "inbound", value |-> "up"]
        /\ UNCHANGED <<mgrVars, inQ, disp, obsVars, taskVars>>

\* Mutant of forward: on a full inbound queue the message is dropped and
\* the task goes on reading.
forward_lossy(q, item, task) ==
    IF Len(q.data) < QueueCapacity
    THEN [queue |-> [q EXCEPT !.data = Append(@, item)], blocked |-> FALSE]
    ELSE [queue |-> q, blocked |-> FALSE]

\* await queue.send((entry.name, message)) on the inbound queue: buffered
\* when there is room, else the task blocks as a waiter of the queue.
forward(q, item, task) ==
    IF Len(q.data) < QueueCapacity
    THEN [queue |-> [q EXCEPT !.data = Append(@, item)], blocked |-> FALSE]
    ELSE [queue |-> [q EXCEPT !.waiters = Append(@, [task |-> task, item |-> item])],
          blocked |-> TRUE]

\* The channel yields a message and the task forwards it; the next message
\* is read only after the send has returned.
InboundMessage(i) ==
    /\ run_state = "running"
    /\ inbound[i].pc = "reading"
    /\ inbound[i].seq < MaxMessages
    /\ tasks["consumer"] # "closed"
    /\ LET item == [name |-> entries[i].name, entry |-> i, seq |-> inbound[i].seq + 1]
           r == forward(inQ, item, i)
       IN  /\ inQ' = r.queue
           /\ inbound' = [inbound EXCEPT ![i].seq = @ + 1,
                                         ![i].pc = IF r.blocked THEN "blocked" ELSE "reading"]
           /\ forwarded' = IF Len(r.queue.data) > Len(inQ.data)
                           THEN Append(forwarded, item) ELSE forwarded
    /\ emitted' = <<>>
    /\ ret' = [op |-> "inbound", value |-> "message"]
    /\ UNCHANGED <<entries, mgrVars, disp, obsVars, alias_handles, tasks, failure>>

\* The consumer takes the next item of the inbound queue.
Consume ==
    /\ run_state = "running"
    /\ tasks["consumer"] = "running"
    /\ inQ.data # <<>>
    /\ LET r == queue_receive(inQ)
       IN  /\ inQ' = r.queue
           /\ forwarded' = forwarded \o [k \in 1..Len(r.woken) |-> r.woken[k].item]
           /\ inbound' = [i \in 1..Len(inbound) |->
                            IF \E k \in 1..Len(r.woken) : r.woken[k].task = i
                            THEN [inbound[i] EXCEPT !.pc = "reading"]
                            ELSE inbound[i]]
    /\ emitted' = <<>>
    /\ ret' = [op |-> "consume", value |-> None]
    /\ UNCHANGED <<entries, mgrVars, disp, obsVars, alias_handles, tasks, failure>>

\* Reading the channel or queue.send raises: the except block logs, the
\* finally block detaches the channel and control returns to the supervisor.
\* A send that is already blocked raises only when the consumer closes its
\* end of the queue (BrokenResourceError).
InboundFail(i) ==
    \E ex \in {"Exception", "BrokenResourceError", "ClosedResourceError"} :
        /\ run_state = "running"
        /\ \/ inbound[i].pc = "reading"
           \/ /\ inbound[i].pc = "blocked"
              /\ tasks["consumer"] = "closed"
              /\ ex = "BrokenResourceError"
        /\ entries' = [entries EXCEPT ![i] = detach_channel(@)]
        /\ inbound' = [inbound EXCEPT ![i].pc = "stopped"]
        /\ inQ' = DropWaiters(inQ, i)
        /\ emitted' = failure_log(ex, TRUE)
        /\ ret' = [op |-> "inbound", value |-> "failed"]
        /\ UNCHANGED <<mgrVars, disp, obsVars, taskVars>>

\* The channel's iteration ends: the finally block detaches and logs.
InboundClose(i) ==
    /\ run_state = "running"
    /\ inbound[i].pc = "reading"
    /\ entries' = [entries EXCEPT ![i] = detach_channel(@)]
    /\ inbound' = [inbound EXCEPT ![i].pc = "stopped"]
    /\ emitted' = <<LogRec("info", "Connection closed")>>
    /\ ret' = [op |-> "inbound", value |-> "closed"]
    /\ UNCHANGED <<mgrVars, inQ, disp, obsVars, taskVars>>

\* Cancellation reaches the task at its await: only the finally block runs.
InboundCancelled(i) ==
    /\ run_state = "cancelling"
    /\ inbound[i].pc \in {"reading", "blocked"}
    /\ entries' = [entries EXCEPT ![i] = detach_channel(@)]
    /\ inbound' = [inbound EXCEPT ![i].pc = "stopped"]
    /\ inQ' = DropWaiters(inQ, i)
    /\ emitted' = <<LogRec("info", "Connection closed")>>
    /\ ret' = [op |-> "inbound", value |-> "cancelled"]
    /\ UNCHANGED <<mgrVars, disp, obsVars, taskVars>>

(* ------------------------------------------------ packet submission *)

\* Mutant of queue_send: on a full queue the call returns at once and the
\* item is lost.
queue_send_lossy(q, item, task) ==
    IF Len(q.data) < QueueCapacity
    THEN [queue |-> [q EXCEPT !.data = Append(@, item)], blocked |-> FALSE]
    ELSE [queue |-> q, blocked |-> FALSE]

\* await queue.send(item): buffered when there is room, else the caller
\* blocks as a waiter of the channel.
queue_send(q, item, task) ==
    IF Len(q.data) < QueueCapacity
    THEN [queue |-> [q EXCEPT !.data = Append(@, item)], blocked |-> FALSE]
    ELSE [queue |-> [q EXCEPT !.waiters = Append(@, [task |-> task, item |-> item])],
          blocked |-> TRUE]

\* Mutant of queue_send_nowait: a full queue makes room by dropping its
\* oldest item.
queue_send_nowait_evict(q, item) ==
    IF Len(q.data) < QueueCapacity
    THEN [queue |-> [q EXCEPT !.data = Append(@, item)], raised |-> None]
    ELSE [queue |-> [q EXCEPT !.data = Append(Tail(@), item)], raised |-> "WouldBlock"]

\* queue.send_nowait(item): buffered when there is room, else WouldBlock.
queue_send_nowait(q, item) ==
    IF Len(q.data) < QueueCapacity
    THEN [queue |-> [q EXCEPT !.data = Append(@, item)], raised |-> None]
    ELSE [queue |-> q, raised |-> "WouldBlock"]

\* Mutant of queue_closed: a submission to a closed queue is always silent.
queue_closed_silent(op, allow_failure) ==
    [op |-> op, value |-> None, allow_failure |-> allow_failure]

\* "if not queue:" in the four submission methods: what the call returns or
\* raises when there is no outbound queue. send_packet and enqueue_packet
\* have no allow_failure parameter (FALSE here).
queue_closed(op, allow_failure) ==
    [op |-> op, value |-> IF allow_failure THEN None ELSE "BrokenResourceError",
     allow_failure |-> allow_failure]

\* Names a caller may address: registered names, aliases, alias targets and
\* a name nobody knows.
DestNames ==
    {entries[i].name : i \in 1..Len(entries)} \cup DOMAIN aliases
        \cup UNION {{aliases[a][k] : k \in 1..Len(aliases[a])} : a \in DOMAIN aliases}
        \cup {"U"}

\* Addresses: one peer address, or the BROADCAST marker.
Addresses == {"addr", BROADCAST}

\* The destination "everyone": the bare BROADCAST marker in the queue item.
Everyone == <<BROADCAST>>

\* send_packet(packet, (name, address))
SendPacket ==
    \E name \in DestNames, address \in Addresses :
        /\ nextId < MaxPackets
        /\ nextId' = nextId + 1
        /\ emitted' = <<>>
        /\ IF outbound_tx_queue = None
           THEN /\ ret' = queue_closed("send_packet", FALSE)
                /\ UNCHANGED <<outQ, accepted>>
           ELSE LET item == [id |-> nextId + 1, destination |-> <<name, address>>]
                    r == queue_send(outQ, item, nextId + 1)
                IN  /\ outQ' = r.queue
                    /\ accepted' = IF r.blocked THEN accepted
                                   ELSE Append(accepted, item.id)
                    /\ ret' = [op |-> "send_packet",
                               value |-> IF r.blocked THEN "suspended" ELSE None]
        /\ UNCHANGED <<entries, tblVars, running, log, outbound_tx_queue, run_state,
                       inbound, inQ, disp, taskVars, trace, prevCount, handled, finished, calls>>

\* broadcast_packet(packet, destination=..., allow_failure=...)
BroadcastPacket ==
    \E destination \in DestNames \cup {None}, allow_failure \in BOOLEAN :
        /\ nextId < MaxPackets
        /\ nextId' = nextId + 1
        /\ emitted' = <<>>
        /\ IF outbound_tx_queue = None
           THEN /\ ret' = queue_closed("broadcast_packet", allow_failure)
                /\ UNCHANGED <<outQ, accepted>>
           ELSE LET address == IF destination = None THEN Everyone
                               ELSE <<destination, BROADCAST>>
                    item == [id |-> nextId + 1, destination |-> address]
                    r == queue_send(outQ, item, nextId + 1)
                IN  /\ outQ' = r.queue
                    /\ accepted' = IF r.blocked THEN accepted
                                   ELSE Append(accepted, item.id)
                    /\ ret' = [op |-> "broadcast_packet",
                               value |-> IF r.blocked THEN "suspended" ELSE None]
        /\ UNCHANGED <<entries, tblVars, running, log, outbound_tx_queue, run_state,
                       inbound, inQ, disp, taskVars, trace, prevCount, handled, finished, calls>>

\* enqueue_packet(packet, (name, address))
EnqueuePacket ==
    \E name \in DestNames, address \in Addresses :
        /\ nextId < MaxPackets
        /\ nextId' = nextId + 1
        /\ IF outbound_tx_queue = None
           THEN /\ ret' = queue_closed("enqueue_packet", FALSE)
                /\ emitted' = <<>>
                /\ UNCHANGED <<outQ, accepted>>
           ELSE LET item == [id |-> nextId + 1, destination |-> <<name, address>>]
                    r == queue_send_nowait(outQ, item)
                IN  /\ outQ' = r.queue
                    /\ accepted' = IF r.raised = None THEN Append(accepted, item.id)
                                   ELSE accepted
                    /\ emitted' =
                         IF r.raised = "WouldBlock" /\ log # None
                         THEN <<LogRec("warning",
                                 "Dropping outbound packet; outbound message queue is full")>>
                         ELSE <<>>
                    /\ ret' = [op |-> "enqueue_packet", value |-> None]
        /\ UNCHANGED <<entries, tblVars, running, log, outbound_tx_queue, run_state,
                       inbound, inQ, disp, taskVars, trace, prevCount, handled, finished, calls>>

\* enqueue_broadcast_packet(packet, destination=..., allow_failure=...)
EnqueueBroadcastPacket ==
    \E destination \in DestNames \cup {None}, allow_failure \in BOOLEAN :
        /\ nextId < MaxPackets
        /\ nextId' = nextId + 1
        /\ IF outbound_tx_queue = None
           THEN /\ ret' = queue_closed("enqueue_broadcast_packet", allow_failure)
                /\ emitted' = <<>>
                /\ UNCHANGED <<outQ, accepted>>
           ELSE LET address == IF destination = None THEN Everyone
                               ELSE <<destination, BROADCAST>>
                    item == [id |-> nextId + 1, destination |-> address]
                    r == queue_send_nowait(outQ, item)
                IN  /\ outQ' = r.queue
                    /\ accepted' = IF r.raised = None THEN Append(accepted, item.id)
                                   ELSE accepted
                    /\ emitted' =
                         IF r.raised = "WouldBlock" /\ log # None
                         THEN <<LogRec("warning",
                                 "Dropping outbound broadcast packet; outbound message queue is full")>>
                         ELSE <<>>
                    /\ ret' = [op |-> "enqueue_broadcast_packet", value |-> None]
        /\ UNCHANGED <<entries, tblVars, running, log, outbound_tx_queue, run_state,
                       inbound, inQ, disp, taskVars, trace, prevCount, handled, finished, calls>>

(* --------------------------------------------------- _run_outbound_links *)

\* The dispatcher waiting in "async for message, destination in queue".
DispIdle == [pc |-> "idle"]

\* The dispatcher task starts: it opens the outbound queue and publishes its
\* sending end.
DispatcherStart ==
    /\ run_state = "running"
    /\ disp.pc = "off"
    /\ outbound_tx_queue' = "tx_queue"
    /\ outQ' = EmptyQueue
    /\ disp' = DispIdle
    /\ emitted' = <<>>
    /\ ret' = [op |-> "dispatcher", value |-> "started"]
    /\ UNCHANGED <<entries, tblVars, running, log, run_state, inbound, inQ,
                   obsVars, taskVars>>

\* Cancellation reaches the dispatcher: the finally block clears the handle
\* and the queue is closed.
DispatcherCancelled ==
    /\ run_state = "cancelling"
    /\ disp.pc # "off"
    /\ outbound_tx_queue' = None
    /\ outQ' = EmptyQueue
    /\ disp' = DispOff
    /\ emitted' = <<>>
    /\ ret' = [op |-> "dispatcher", value |-> "cancelled"]
    /\ UNCHANGED <<entries, tblVars, running, log, run_state, inbound, inQ,
                   obsVars, taskVars>>

(* ------------------------------------------------- outbound dispatch *)

\* Failures a channel's send or broadcast can raise: OSError with a
\* "network down" errno, with a "host down" errno, with any other errno,
\* BrokenResourceError, and any other exception.
TxErrors == {"OSError:ENETUNREACH", "OSError:EHOSTUNREACH", "OSError:other",
             "BrokenResourceError", "Exception"}

\* isinstance(ex, OSError)
IsOSError(ex) == ex \in {"OSError:ENETUNREACH", "OSError:EHOSTUNREACH", "OSError:other"}

\* Entry indexes 1..n as a sequence.
Indices == [i \in 1..Len(entries) |-> i]

\* _entries_by_name.get(name): the entries of a name in registration order
\* (empty: the name has no key).
EntrySeq(name) == SelectSeq(Indices, LAMBDA i : entries[i].name = name)

\* _iter_entries / _entries_by_name.values(): names in the order of their
\* first registration, each name's entries in registration order.
RECURSIVE IterFrom(_)
IterFrom(i) ==
    IF i > Len(entries) THEN <<>>
    ELSE (IF \A j \in 1..(i - 1) : entries[j].name # entries[i].name
          THEN EntrySeq(entries[i].name) ELSE <<>>) \o IterFrom(i + 1)

IterEntries == IterFrom(1)

\* _error_counters[name] (a defaultdict(int))
Counter(counters, name) == IF name \in DOMAIN counters THEN counters[name] ELSE 0

\* _error_counters[name] = value
SetCounter(counters, name, value) ==
    [n \in DOMAIN counters \cup {name} |-> IF n = name THEN value ELSE counters[n]]

\* A mutant of alias_targets: the dispatcher goes through the targets of an
\* alias twice.
alias_targets_twice(name) ==
    IF name \in DOMAIN aliases THEN aliases[name] \o aliases[name] ELSE <<>>

\* A mutant of alias_targets: first-match routing, only the first target of
\* an alias is used.
alias_targets_first_match(name) ==
    IF name \in DOMAIN aliases /\ aliases[name] # <<>> THEN <<aliases[name][1]>> ELSE <<>>

\* _aliases.get(name), with "no alias" (None) as the empty list: the code
\* tests both with "not targets".
alias_targets(name) == IF name \in DOMAIN aliases THEN aliases[name] ELSE <<>>

\* _log_os_error_during_tx
log_os_error_during_tx(ex) ==
    IF ex = "OSError:ENETUNREACH"
    THEN <<LogRec("error", "Network is down or unreachable")>>
    ELSE IF ex = "OSError:EHOSTUNREACH"
    THEN <<LogRec("error", "Host is down or unreachable")>>
    ELSE <<LogRec("exception", "Error while sending message (code)")>>

\* Mutant of handle_tx_error: the suspension is announced at every error
\* from the limit on.
handle_tx_error_repeats(entry, ex, limit) ==
    LET r == notify_error(entry, limit)
    IN  [entry |-> r.entry,
         emitted |-> IF r.result = LOG
                     THEN <<LogRec("error", "Error while sending message")>>
                     ELSE <<LogRec("warning",
                             "Error reporting suspended until the connection recovers")>>]

\* Mutant of handle_tx_error: a "network unreachable" failure is logged but
\* does not count.
handle_tx_error_benign(entry, ex, limit) ==
    LET r == notify_error(entry, limit)
    IN  IF ex = "OSError:ENETUNREACH"
        THEN [entry |-> entry, emitted |-> log_os_error_during_tx(ex)]
        ELSE [entry |-> r.entry,
              emitted |-> IF r.result = SKIP_LOGGING THEN <<>>
                          ELSE <<LogRec("error", "Error while sending message")>>]

\* _handle_tx_error(ex, address, entry, index): the entry after the call
\* and the log records written.
handle_tx_error(entry, ex, limit) ==
    LET r == notify_error(entry, limit)
        first == IF IsOSError(ex) THEN log_os_error_during_tx(ex)
                 ELSE IF ex = "BrokenResourceError"
                 THEN <<LogRec("error", "Channel is broken")>>
                 ELSE <<LogRec("error", "Error while sending message")>>
        suspend == IF r.result = LOG_AND_SUSPEND
                   THEN <<LogRec("warning",
                           "Error reporting suspended until the connection recovers")>>
                   ELSE <<>>
        last == IF IsOSError(ex) THEN <<>>
                ELSE <<LogRec("exception", "Error while sending message")>>
    IN  [entry |-> r.entry,
         emitted |-> IF r.result = SKIP_LOGGING THEN <<>>
                     ELSE first \o suspend \o last]

\* A mutant of skips_broadcast: the broadcast also passes over the entries that
\* are not send-capable.
skips_broadcast_unless_can_send(entry) == ~(entry.can_broadcast /\ entry.can_send)

\* Line 578: the broadcast to everyone passes over an entry that cannot
\* broadcast.
skips_broadcast(entry) == ~entry.can_broadcast

\* A dispatcher state m is the part of the manager one dispatch works on:
\* [entries, error_counters, disp, emitted, calls, finished].

\* The dispatch of the current packet returns to the "async for".
Done(m) ==
    [m EXCEPT !.disp = DispIdle,
              !.finished = Append(@, m.disp.item.id)]

\* Mutant of after_attempt: the loop over the entries of the name stops at
\* the first success.
after_attempt_first_success(m, e) ==
    LET r == reset_error_count(m.entries[e])
    IN  IF m.disp.sent
        THEN [m EXCEPT !.entries[e] = r.entry,
                       !.disp.index = Len(EntrySeq(m.disp.name)) + 1]
        ELSE [m EXCEPT !.disp.index = @ + 1]

\* Lines 633-639: after the attempt on entry e, "if sent:" resets that
\* entry's error count and logs the recovery; then the loop moves on.
after_attempt(m, e) ==
    LET r == reset_error_count(m.entries[e])
    IN  IF m.disp.sent
        THEN [m EXCEPT !.entries[e] = r.entry,
                       !.emitted = IF r.result
                                   THEN @ \o <<LogRec("info", "Channel resumed normal operation")>>
                                   ELSE @,
                       !.disp.index = @ + 1]
        ELSE [m EXCEPT !.disp.index = @ + 1]

\* Mutant of finish_name: the warning of a dropped message is logged
\* whatever the counter has reached.
finish_name_unlimited(m) ==
    LET d == m.disp
        c == Counter(m.error_counters, d.name) + 1
    IN  IF d.sent
        THEN [m EXCEPT !.error_counters = SetCounter(@, d.name, 0),
                       !.disp.pc = "targets"]
        ELSE [m EXCEPT !.error_counters = SetCounter(@, d.name, c),
                       !.emitted = IF d.address # BROADCAST
                                   THEN @ \o <<LogRec("warning",
                                        "Dropping outbound message, sending failed on all channels")>>
                                   ELSE @,
                       !.disp.pc = "targets"]

\* Lines 650-669: the per-name consecutive-failure counter and the
\* "dropping message" warning, once every entry of the name was tried; the
\* call then returns to the loop over the alias targets, if any.
finish_name(m) ==
    LET d == m.disp
        c == Counter(m.error_counters, d.name) + 1
        msg == IF EntrySeq(d.name) # <<>>
               THEN "Dropping outbound message, sending failed on all channels"
               ELSE "Dropping outbound message, no suitable channel"
    IN  IF d.sent
        THEN [m EXCEPT !.error_counters = SetCounter(@, d.name, 0),
                       !.disp.pc = "targets"]
        ELSE [m EXCEPT !.error_counters = SetCounter(@, d.name, c),
                       !.emitted = IF d.address # BROADCAST /\ c <= error_limit
                                   THEN @ \o <<LogRec("warning", msg)>>
                                   ELSE @,
                       !.disp.pc = "targets"]

\* A channel call starts: the dispatcher awaits its return.
Call(m, e, kind, pc) ==
    [m EXCEPT !.calls = Append(@, [id |-> m.disp.item.id, entry |-> e,
                                   channel |-> m.entries[e].channel, kind |-> kind,
                                   arg |-> <<"packet", m.disp.address>>]),
              !.disp.pc = pc]

\* The dispatcher runs from where it stands to its next await: a channel
\* call, or the receive of the next packet.
RECURSIVE RunDispatcher(_)
RunDispatcher(m) ==
    LET d == m.disp
    IN  CASE d.pc = "all" ->
                \* _send_message_to_all_channels: the loop over all entries
                IF d.index > Len(IterEntries) THEN Done(m)
                ELSE LET e == IterEntries[d.index]
                     IN  IF skips_broadcast(m.entries[e])
                         THEN RunDispatcher([m EXCEPT !.disp.index = @ + 1])
                         ELSE Call(m, e, "broadcast", "all_await")
          [] d.pc = "targets" ->
                \* lines 604-609: the loop over the targets of an alias
                IF d.targets = <<>> THEN Done(m)
                ELSE IF EntrySeq(Head(d.targets)) # <<>>
                THEN RunDispatcher([m EXCEPT !.disp.pc = "single",
                                             !.disp.name = Head(d.targets),
                                             !.disp.index = 1,
                                             !.disp.sent = FALSE,
                                             !.disp.targets = Tail(@)])
                ELSE RunDispatcher([m EXCEPT !.disp.targets = Tail(@)])
          [] d.pc = "single" ->
                \* lines 611-648: the loop over the entries of the name
                IF d.index > Len(EntrySeq(d.name)) THEN RunDispatcher(finish_name(m))
                ELSE LET e == EntrySeq(d.name)[d.index]
                     IN  IF is_open(m.entries[e]) /\ m.entries[e].can_send
                         THEN IF d.address = BROADCAST
                              THEN IF m.entries[e].can_broadcast
                                   THEN Call(m, e, "broadcast", "single_await")
                                   ELSE RunDispatcher(after_attempt(m, e))
                              ELSE Call(m, e, "send", "single_await")
                         ELSE RunDispatcher([m EXCEPT !.disp.index = @ + 1])
          [] OTHER -> m

\* A mutant of resolve: the single target of an alias is resolved again,
\* through the registry and then the alias table.
RECURSIVE resolve_recursive(_, _, _)
resolve_recursive(item, name, address) ==
    LET frame == [pc |-> "single", item |-> item, name |-> name, address |-> address,
                  index |-> 1, sent |-> FALSE, targets |-> <<>>]
        targets == alias_targets(name)
    IN  IF EntrySeq(name) # <<>> THEN frame
        ELSE IF targets = <<>> THEN [frame EXCEPT !.pc = "targets"]
        ELSE IF Len(targets) = 1 THEN resolve_recursive(item, targets[1], address)
        ELSE [frame EXCEPT !.pc = "targets", !.targets = targets]

\* Lines 592-609: where the dispatch of (name, address) starts, as the
\* dispatcher's next position.
resolve(item, name, address) ==
    LET frame == [pc |-> "single", item |-> item, name |-> name, address |-> address,
                  index |-> 1, sent |-> FALSE, targets |-> <<>>]
        targets == alias_targets(name)
    IN  IF EntrySeq(name) # <<>> THEN frame
        ELSE IF targets = <<>> THEN [frame EXCEPT !.pc = "targets"]
        ELSE IF Len(targets) = 1 THEN [frame EXCEPT !.name = targets[1]]
        ELSE [frame EXCEPT !.pc = "targets", !.targets = targets]

\* _run_outbound_links_inner: what the dispatcher does with a received item.
start_dispatch(item) ==
    IF item.destination = Everyone
    THEN [pc |-> "all", item |-> item, name |-> None, address |-> BROADCAST,
          index |-> 1, sent |-> FALSE, targets |-> <<>>]
    ELSE resolve(item, item.destination[1], item.destination[2])

\* The dispatcher state of the manager, and its write-back.
DispState ==
    [entries |-> entries, error_counters |-> error_counters, disp |-> disp,
     emitted |-> <<>>, calls |-> calls, finished |-> finished]

Commit(m) ==
    /\ entries' = m.entries
    /\ error_counters' = m.error_counters
    /\ disp' = m.disp
    /\ emitted' = m.emitted
    /\ calls' = m.calls
    /\ finished' = m.finished

\* The dispatcher is between two packets, waiting on the queue.
DispatcherReady == run_state = "running" /\ disp.pc = "idle"

\* The dispatcher receives the next item and handles it up to its first
\* channel call (or to the end, when there is none).
DispatchNext ==
    /\ DispatcherReady
    /\ outQ.data # <<>>
    /\ LET r == queue_receive(outQ)
       IN  /\ outQ' = r.queue
           /\ accepted' = accepted \o [k \in 1..Len(r.woken) |-> r.woken[k].item.id]
           /\ handled' = Append(handled, r.item.id)
           /\ Commit(RunDispatcher([DispState EXCEPT !.disp = start_dispatch(r.item),
                                                      !.calls = <<>>]))
    /\ ret' = [op |-> "dispatcher", value |-> "received"]
    /\ UNCHANGED <<error_limit, broadcast_delay, aliases, running, log,
                   outbound_tx_queue, run_state, inbound, inQ, taskVars, trace, prevCount, nextId>>

\* The entry the dispatcher's pending channel call was made on.
CurrentEntry ==
    IF disp.pc = "all_await" THEN IterEntries[disp.index]
    ELSE EntrySeq(disp.name)[disp.index]

\* The pending channel call returns normally.
ChannelReturn ==
    /\ run_state = "running"
    /\ disp.pc \in {"all_await", "single_await"}
    /\ LET m == DispState
           e == CurrentEntry
       IN  IF disp.pc = "all_await"
           THEN Commit(RunDispatcher([m EXCEPT !.disp.pc = "all", !.disp.index = @ + 1]))
           ELSE IF disp.address = BROADCAST /\ broadcast_delay > 0
           THEN Commit([m EXCEPT !.disp.pc = "sleep"])
           ELSE Commit(RunDispatcher(after_attempt(
                    [m EXCEPT !.disp.pc = "single", !.disp.sent = TRUE], e)))
    /\ ret' = [op |-> "dispatcher", value |-> "call returned"]
    /\ UNCHANGED <<error_limit, broadcast_delay, aliases, running, log,
                   outbound_tx_queue, run_state, outQ, inbound, inQ,
                   taskVars, trace, prevCount, nextId, accepted, handled>>

\* sleep(broadcast_delay) after a broadcast returns.
SleepReturn ==
    /\ run_state = "running"
    /\ disp.pc = "sleep"
    /\ Commit(RunDispatcher(after_attempt(
           [DispState EXCEPT !.disp.pc = "single", !.disp.sent = TRUE], CurrentEntry)))
    /\ ret' = [op |-> "dispatcher", value |-> "slept"]
    /\ UNCHANGED <<error_limit, broadcast_delay, aliases, running, log,
                   outbound_tx_queue, run_state, outQ, inbound, inQ,
                   taskVars, trace, prevCount, nextId, accepted, handled>>

\* Mutant of after_error: the exception of the channel call leaves the
\* dispatcher task, which ends.
after_error_propagates(m, e, ex) == [m EXCEPT !.disp = DispOff]

\* Lines 641-648: the except block hands the exception to _handle_tx_error
\* and the loop moves on to the next entry.
after_error(m, e, ex) ==
    LET h == handle_tx_error(m.entries[e], ex, error_limit)
    IN  [m EXCEPT !.entries[e] = h.entry,
                  !.emitted = h.emitted,
                  !.disp.pc = "single",
                  !.disp.index = @ + 1]

\* The pending channel call raises.
ChannelRaise(ex) ==
        /\ ex \in TxErrors
        /\ run_state = "running"
        /\ disp.pc \in {"all_await", "single_await"}
        /\ disp.pc = "single_await" => entries[CurrentEntry].error_count < MaxErrors
        /\ LET m == DispState
               e == CurrentEntry
           IN  IF disp.pc = "all_await"
               THEN Commit(RunDispatcher([m EXCEPT !.disp.pc = "all",
                                                   !.disp.index = @ + 1]))
               ELSE Commit(RunDispatcher(after_error(m, e, ex)))
        /\ ret' = [op |-> "dispatcher", value |-> ex]
        /\ UNCHANGED <<error_limit, broadcast_delay, aliases, running, log,
                       outbound_tx_queue, run_state, outQ, inbound, inQ,
                       taskVars, trace, prevCount, nextId, accepted, handled>>

(* ------------------------------------------ outbound queue specification *)

\* An entry whose inbound task has attached channel c.
OpenEntry(name, can_send, c) ==
    set_channel(NewEntry(name, can_send), c)

\* An inbound task iterating its channel.
InboundReading == [pc |-> "reading", seq |-> 0]

\* A running manager with one open connection "A": run() has started the
\* dispatcher and the entry's inbound task has attached a broadcast-capable
\* channel.
InitQueue ==
    /\ entries = <<OpenEntry("A", TRUE, "bcast1")>>
    /\ inbound = <<InboundReading>>
    /\ error_limit = DefaultErrorLimit
    /\ broadcast_delay \in {0, 1}
    /\ aliases = <<>> /\ error_counters = <<>>
    /\ running = TRUE /\ log = "logger" /\ outbound_tx_queue = "tx_queue"
    /\ run_state = "running"
    /\ outQ = EmptyQueue /\ inQ = EmptyQueue /\ disp = DispIdle
    /\ ret = [op |-> "init", value |-> None]
    /\ emitted = <<>>
    /\ trace = <<>> /\ prevCount = 0
    /\ alias_handles = NoHandles /\ tasks = TasksRunning /\ failure = None /\ forwarded = <<>>
    /\ nextId = 0 /\ accepted = <<>> /\ handled = <<>> /\ finished = <<>>
    /\ calls = <<>>

\* Any step of the dispatcher task; its position enables one kind at a time.
DispatcherStep ==
    DispatchNext \/ ChannelReturn \/ (\E ex \in TxErrors : ChannelRaise(ex)) \/ SleepReturn

NextQueue ==
    \/ SendPacket
    \/ BroadcastPacket
    \/ EnqueuePacket
    \/ EnqueueBroadcastPacket
    \/ DispatchNext
    \/ ChannelReturn
    \/ \E ex \in TxErrors : ChannelRaise(ex)
    \/ SleepReturn

SpecQueue == InitQueue /\ [][NextQueue]_vars

\* The same manager at the moment its outbound queue has just filled up
\* with packets for ("A", addr), none of them handled yet.
InitQueueFull ==
    /\ entries = <<OpenEntry("A", TRUE, "bcast1")>>
    /\ inbound = <<InboundReading>>
    /\ error_limit = DefaultErrorLimit
    /\ broadcast_delay \in {0, 1}
    /\ aliases = <<>> /\ error_counters = <<>>
    /\ running = TRUE /\ log = "logger" /\ outbound_tx_queue = "tx_queue"
    /\ run_state = "running"
    /\ outQ = [data |-> [k \in 1..QueueCapacity |->
                            [id |-> k, destination |-> <<"A", "addr">>]],
               waiters |-> <<>>]
    /\ inQ = EmptyQueue /\ disp = DispIdle
    /\ ret = [op |-> "init", value |-> None]
    /\ emitted = <<>>
    /\ trace = <<>> /\ prevCount = 0
    /\ alias_handles = NoHandles /\ tasks = TasksRunning /\ failure = None /\ forwarded = <<>>
    /\ nextId = QueueCapacity
    /\ accepted = [k \in 1..QueueCapacity |-> k]
    /\ handled = <<>> /\ finished = <<>> /\ calls = <<>>

\* The dispatcher keeps draining: it takes the next packet whenever one is
\* queued, and every channel call and delay it awaits returns.
SpecQueueFull == InitQueueFull /\ [][NextQueue]_vars /\ WF_vars(DispatcherStep)

(* ------------------------------------------------ routing specification *)

\* An inbound task as the supervisor left it for an entry: iterating the
\* attached channel, or stopped when there is none.
InboundFor(entry) == IF is_open(entry) THEN InboundReading ELSE InboundStopped(0)

\* A running manager with two connections registered as "A" (the second
\* one with either can_send flag) and one as "B", each with or without a
\* channel of either kind attached; alias "G" fans out to A and B, alias "X"
\* names alias "Y", which names A.
InitRoute ==
    /\ \E can_send \in BOOLEAN, c1, c2, c3 \in Channels \cup {None} :
          entries = <<OpenEntry("A", TRUE, c1), OpenEntry("A", can_send, c2),
                      OpenEntry("B", TRUE, c3)>>
    /\ inbound = [i \in 1..3 |-> InboundFor(entries[i])]
    /\ error_limit = DefaultErrorLimit
    /\ broadcast_delay = 0
    /\ aliases = [a \in {"G", "X", "Y"} |->
                    IF a = "G" THEN <<"A", "B">> ELSE IF a = "X" THEN <<"Y">> ELSE <<"A">>]
    /\ error_counters = <<>>
    /\ running = TRUE /\ log = "logger" /\ outbound_tx_queue = "tx_queue"
    /\ run_state = "running"
    /\ outQ = EmptyQueue /\ inQ = EmptyQueue /\ disp = DispIdle
    /\ ret = [op |-> "init", value |-> None]
    /\ emitted = <<>>
    /\ trace = <<>> /\ prevCount = 0
    /\ alias_handles = NoHandles /\ tasks = TasksRunning /\ failure = None /\ forwarded = <<>>
    /\ nextId = 0 /\ accepted = <<>> /\ handled = <<>> /\ finished = <<>>
    /\ calls = <<>>

\* The callers submit one packet at a time: the next one once the dispatcher
\* is done with the previous one.
OneInFlight == nextId < MaxRoutePackets /\ outQ.data = <<>> /\ disp.pc = "idle"

\* The dispatcher is inside a channel call: the point where the inbound
\* tasks get to run during a dispatch.
InChannelCall == disp.pc \in {"all_await", "single_await"}

\* Packets are submitted and dispatched one after the other; channels are
\* attached and lost while the dispatcher waits in a channel call, which
\* either returns or raises.
NextRoute ==
    \/ OneInFlight /\ SendPacket
    \/ OneInFlight /\ BroadcastPacket
    \/ DispatchNext
    \/ ChannelReturn
    \/ \E ex \in {"OSError:ENETUNREACH", "Exception"} : ChannelRaise(ex)
    \/ InChannelCall /\ \E i \in 1..Len(entries) : InboundOpen(i)
    \/ InChannelCall /\ \E i \in 1..Len(entries) : InboundFail(i)

SpecRoute == InitRoute /\ [][NextRoute]_vars

(* --------------------------------------------- lifecycle specification *)

\* The state after construction.
InitLife ==
    /\ entries = <<>>
    /\ error_limit = DefaultErrorLimit
    /\ running = FALSE /\ log = None /\ outbound_tx_queue = None
    /\ run_state = "idle"
    /\ inbound = <<>> /\ inQ = EmptyQueue /\ disp = DispOff
    /\ ret = [op |-> "init", value |-> None]
    /\ emitted = <<>>
    /\ trace = <<>> /\ prevCount = 0
    /\ alias_handles = NoHandles /\ tasks = TasksOff /\ failure = None /\ forwarded = <<>>
    /\ broadcast_delay = 0 /\ aliases = <<>> /\ error_counters = <<>>
    /\ outQ = EmptyQueue
    /\ nextId = 0 /\ accepted = <<>> /\ handled = <<>> /\ finished = <<>>
    /\ calls = <<>>

NextLife ==
    \/ Add
    \/ RunStart
    \/ Cancel
    \/ RunEnd
    \/ \E i \in 1..Len(entries) : InboundFactoryFail(i)
    \/ \E i \in 1..Len(entries) : InboundOpen(i)
    \/ \E i \in 1..Len(entries) : InboundFail(i)
    \/ \E i \in 1..Len(entries) : InboundClose(i)
    \/ \E i \in 1..Len(entries) : InboundCancelled(i)
    \/ DispatcherStart
    \/ DispatcherCancelled
    \/ \E t \in Tasks : TaskCancelled(t)

SpecLife == InitLife /\ [][NextLife]_vars

(* ------------------------------------------------------------ alias table *)

\* Alias names and target lists the callers use.
AliasNames == {"G", "X"}
TargetLists == {<<>>, <<"A">>, <<"A", "B">>}

\* The function f without the key k (del f[k]).
Without(f, k) == [n \in DOMAIN f \ {k} |-> f[n]]

\* Mutant of add_alias: an existing alias is silently replaced.
add_alias_overwrite(al, alias, targets) ==
    [aliases |-> [n \in DOMAIN al \cup {alias} |-> IF n = alias THEN targets ELSE al[n]],
     raised |-> None]

\* CommunicationManager.add_alias: the alias table after the call and what
\* it raised; a call that returns hands out a disposer for the alias.
add_alias(al, alias, targets) ==
    IF alias \in DOMAIN al
    THEN [aliases |-> al, raised |-> "RuntimeError"]
    ELSE [aliases |-> [n \in DOMAIN al \cup {alias} |->
                          IF n = alias THEN targets ELSE al[n]],
          raised |-> None]

\* CommunicationManager.remove_alias: del self._aliases[alias].
remove_alias(al, alias) ==
    IF alias \in DOMAIN al
    THEN [aliases |-> Without(al, alias), raised |-> None]
    ELSE [aliases |-> al, raised |-> "KeyError"]

\* The alias operations touch the alias table and the callers' handles only.
RestUnchangedAlias ==
    UNCHANGED <<entries, error_limit, broadcast_delay, error_counters, running, log,
                outbound_tx_queue, run_state, outQ, inbound, inQ, disp, obsVars,
                tasks, failure, forwarded>>

\* disposer = manager.add_alias(alias, targets=...)
AddAlias ==
    \E alias \in AliasNames, targets \in TargetLists :
        LET r == add_alias(aliases, alias, targets)
        IN  /\ aliases' = r.aliases
            /\ alias_handles' = IF r.raised = None
                                THEN [alias_handles EXCEPT !.disposers = @ \cup {alias}]
                                ELSE alias_handles
            /\ ret' = [op |-> "add_alias", value |-> r.raised, alias |-> alias]
            /\ emitted' = <<>>
            /\ RestUnchangedAlias

\* manager.remove_alias(alias)
RemoveAlias ==
    \E alias \in AliasNames :
        LET r == remove_alias(aliases, alias)
        IN  /\ aliases' = r.aliases
            /\ ret' = [op |-> "remove_alias", value |-> r.raised, alias |-> alias]
            /\ emitted' = <<>>
            /\ UNCHANGED alias_handles
            /\ RestUnchangedAlias

\* disposer(): partial(self.remove_alias, alias), called by whoever holds it.
Dispose ==
    \E alias \in alias_handles.disposers :
        LET r == remove_alias(aliases, alias)
        IN  /\ aliases' = r.aliases
            /\ ret' = [op |-> "disposer", value |-> r.raised, alias |-> alias]
            /\ emitted' = <<>>
            /\ UNCHANGED alias_handles
            /\ RestUnchangedAlias

\* with manager.with_alias(alias, targets=...): the scope is entered when
\* add_alias returns; one scope per alias is kept open at a time.
WithAliasEnter ==
    \E alias \in AliasNames \ alias_handles.scopes, targets \in TargetLists :
        LET r == add_alias(aliases, alias, targets)
        IN  /\ aliases' = r.aliases
            /\ alias_handles' = IF r.raised = None
                                THEN [alias_handles EXCEPT !.scopes = @ \cup {alias}]
                                ELSE alias_handles
            /\ ret' = [op |-> "with_alias enter", value |-> r.raised, alias |-> alias]
            /\ emitted' = <<>>
            /\ RestUnchangedAlias

\* The body of a with_alias scope returns or raises: the finally block calls
\* the disposer; what leaves the scope is the disposer's exception, else the
\* body's.
WithAliasExit ==
    \E alias \in alias_handles.scopes, body \in {None, "Exception"} :
        LET r == remove_alias(aliases, alias)
        IN  /\ aliases' = r.aliases
            /\ alias_handles' = [alias_handles EXCEPT !.scopes = @ \ {alias}]
            /\ ret' = [op |-> "with_alias exit",
                       value |-> IF r.raised # None THEN r.raised ELSE body,
                       alias |-> alias]
            /\ emitted' = <<>>
            /\ RestUnchangedAlias

NextAlias == AddAlias \/ RemoveAlias \/ Dispose \/ WithAliasEnter \/ WithAliasExit

\* The alias table of a manager, used from any number of callers.
SpecAlias == InitLife /\ [][NextAlias]_vars

(* ------------------------------------ submissions around the run's ends *)

\* send_packet(..., allow_failure=True) and enqueue_packet(...,
\* allow_failure=True): neither method declares the keyword, so the call
\* raises TypeError before its body runs.
SubmitWithUndeclaredFlag ==
    \E op \in {"send_packet", "enqueue_packet"} :
        /\ nextId < MaxPackets
        /\ nextId' = nextId + 1
        /\ ret' = [op |-> op, value |-> "TypeError", allow_failure |-> TRUE]
        /\ emitted' = <<>>
        /\ UNCHANGED <<entries, mgrVars, inbound, inQ, disp, taskVars,
                       trace, prevCount, accepted, handled, finished, calls>>

\* Callers submit packets before, during and after a run of the manager;
\* the dispatcher takes them off the queue while it runs.
NextSubmit ==
    \/ RunStart
    \/ DispatcherStart
    \/ Cancel
    \/ DispatcherCancelled
    \/ \E t \in Tasks : TaskCancelled(t)
    \/ RunEnd
    \/ SendPacket
    \/ BroadcastPacket
    \/ EnqueuePacket
    \/ EnqueueBroadcastPacket
    \/ SubmitWithUndeclaredFlag
    \/ DispatchNext

SpecSubmit == InitLife /\ [][NextSubmit]_vars

(* ------------------------------------------- dispatch over failing links *)

\* A running manager with two connections registered as "A", each with or
\* without a channel of either kind attached.
InitFault ==
    /\ \E c1, c2 \in Channels \cup {None} :
          entries = <<OpenEntry("A", TRUE, c1), OpenEntry("A", TRUE, c2)>>
    /\ inbound = [i \in 1..2 |-> InboundFor(entries[i])]
    /\ error_limit = DefaultErrorLimit
    /\ broadcast_delay = 0
    /\ aliases = <<>> /\ error_counters = <<>>
    /\ running = TRUE /\ log = "logger" /\ outbound_tx_queue = "tx_queue"
    /\ run_state = "running"
    /\ outQ = EmptyQueue /\ inQ = EmptyQueue /\ disp = DispIdle
    /\ ret = [op |-> "init", value |-> None]
    /\ emitted = <<>>
    /\ trace = <<>> /\ prevCount = 0
    /\ alias_handles = NoHandles /\ tasks = TasksRunning /\ failure = None /\ forwarded = <<>>
    /\ nextId = 0 /\ accepted = <<>> /\ handled = <<>> /\ finished = <<>>
    /\ calls = <<>>

\* Callers submit up to MaxRoutePackets packets at any time.
MayRoute == nextId < MaxRoutePackets

\* Packets are submitted while the dispatcher works; channels are lost and
\* attached while it waits in a channel call, which returns or raises.
NextFault ==
    \/ MayRoute /\ SendPacket
    \/ MayRoute /\ BroadcastPacket
    \/ DispatchNext
    \/ ChannelReturn
    \/ \E ex \in TxErrors : ChannelRaise(ex)
    \/ InChannelCall /\ \E i \in 1..Len(entries) : InboundOpen(i)
    \/ InChannelCall /\ \E i \in 1..Len(entries) : InboundFail(i)

SpecFault == InitFault /\ [][NextFault]_vars

(* ------------------------------------------------------- run() as a whole *)

\* A manager with one connection registered, not running.
InitRun ==
    /\ entries = <<NewEntry("A", TRUE)>>
    /\ inbound = <<InboundStopped(0)>>
    /\ error_limit = DefaultErrorLimit
    /\ running = FALSE /\ log = None /\ outbound_tx_queue = None
    /\ run_state = "idle"
    /\ inQ = EmptyQueue /\ disp = DispOff
    /\ ret = [op |-> "init", value |-> None]
    /\ emitted = <<>>
    /\ trace = <<>> /\ prevCount = 0
    /\ alias_handles = NoHandles /\ tasks = TasksOff /\ failure = None /\ forwarded = <<>>
    /\ broadcast_delay = 0 /\ aliases = <<>> /\ error_counters = <<>>
    /\ outQ = EmptyQueue
    /\ nextId = 0 /\ accepted = <<>> /\ handled = <<>> /\ finished = <<>>
    /\ calls = <<>>

\* run() is started, its tasks work, one of them fails or the run is
\* cancelled, every task unwinds and run() ends; callers submit packets
\* before, during and after.
NextRun ==
    \/ RunStart
    \/ DispatcherStart
    \/ \E i \in 1..Len(entries) : InboundOpen(i)
    \/ \E i \in 1..Len(entries) : InboundMessage(i)
    \/ \E i \in 1..Len(entries) : InboundFail(i)
    \/ Consume
    \/ MayRoute /\ SendPacket
    \/ \E t \in Tasks : TaskReturn(t)
    \/ \E t \in Tasks : TaskFail(t)
    \/ \E i \in 1..Len(entries) : SupervisorFail(i)
    \/ Cancel
    \/ \E t \in Tasks : TaskCancelled(t)
    \/ \E i \in 1..Len(entries) : InboundCancelled(i)
    \/ DispatcherCancelled
    \/ RunEnd

SpecRun == InitRun /\ [][NextRun]_vars

(* ------------------------------------------------------- inbound traffic *)

\* A running manager with two connections, registered under one name or
\* under two, whose inbound tasks the supervisor has not started yet.
InitInbound ==
    /\ \E n \in {"A", "B"} :
           entries = <<NewEntry("A", TRUE), NewEntry(n, TRUE)>>
    /\ inbound = <<InboundStopped(0), InboundStopped(0)>>
    /\ error_limit = DefaultErrorLimit
    /\ running = TRUE /\ log = "logger" /\ outbound_tx_queue = None
    /\ run_state = "running"
    /\ inQ = EmptyQueue /\ disp = DispOff
    /\ ret = [op |-> "run", value |-> "started"]
    /\ emitted = <<>>
    /\ trace = <<>> /\ prevCount = 0
    /\ alias_handles = NoHandles /\ tasks = TasksRunning /\ failure = None /\ forwarded = <<>>
    /\ broadcast_delay = 0 /\ aliases = <<>> /\ error_counters = <<>>
    /\ outQ = EmptyQueue
    /\ nextId = 0 /\ accepted = <<>> /\ handled = <<>> /\ finished = <<>>
    /\ calls = <<>>

\* The inbound tasks open, read, forward, fail and are reopened while the
\* consumer takes items at its own pace or stops.
NextInbound ==
    \/ \E i \in 1..Len(entries) : InboundOpen(i)
    \/ \E i \in 1..Len(entries) : InboundMessage(i)
    \/ \E i \in 1..Len(entries) : InboundFail(i)
    \/ \E i \in 1..Len(entries) : InboundFactoryFail(i)
    \/ \E i \in 1..Len(entries) : InboundClose(i)
    \/ Consume
    \/ \E t \in Tasks : TaskReturn(t)

SpecInbound == InitInbound /\ [][NextInbound]_vars

(* --------------------------------------------------- error count resets *)

\* A running manager with one send-capable connection "A", with or without
\* a channel, with and without a broadcast delay.
InitRecover ==
    /\ \E c \in Channels \cup {None} : entries = <<OpenEntry("A", TRUE, c)>>
    /\ inbound = [i \in 1..1 |-> InboundFor(entries[i])]
    /\ error_limit = DefaultErrorLimit
    /\ broadcast_delay \in {0, 1}
    /\ aliases = <<>> /\ error_counters = <<>>
    /\ running = TRUE /\ log = "logger" /\ outbound_tx_queue = "tx_queue"
    /\ run_state = "running"
    /\ outQ = EmptyQueue /\ inQ = EmptyQueue /\ disp = DispIdle
    /\ ret = [op |-> "init", value |-> None]
    /\ emitted = <<>>
    /\ trace = <<>> /\ prevCount = 0
    /\ alias_handles = NoHandles /\ tasks = TasksRunning /\ failure = None /\ forwarded = <<>>
    /\ nextId = 0 /\ accepted = <<>> /\ handled = <<>> /\ finished = <<>>
    /\ calls = <<>>

\* Packets are sent and broadcast, channel calls return or raise, the
\* connection is lost and reopened, and a channel is set on the entry
\* directly, at any time.
NextRecover ==
    \/ MayRoute /\ SendPacket
    \/ MayRoute /\ BroadcastPacket
    \/ DispatchNext
    \/ ChannelReturn
    \/ \E ex \in {"OSError:other", "BrokenResourceError"} : ChannelRaise(ex)
    \/ SleepReturn
    \/ \E i \in 1..Len(entries) : InboundOpen(i)
    \/ \E i \in 1..Len(entries) : InboundFail(i)
    \/ \E i \in 1..Len(entries) : InboundFactoryFail(i)
    \/ SetChannel

SpecRecover == InitRecover /\ [][NextRecover]_vars

(* ------------------------------------------------- transmission errors *)

\* A running manager with two connections under the name "A", the first
\* one open, an alias "Y" for A and an error limit small enough to be
\* passed.
InitClassify ==
    /\ \E c1 \in Channels, c2 \in Channels \cup {None} :
          entries = <<OpenEntry("A", TRUE, c1), OpenEntry("A", TRUE, c2)>>
    /\ inbound = [i \in 1..2 |-> InboundFor(entries[i])]
    /\ error_limit \in 1..MaxLimit
    /\ broadcast_delay = 0
    /\ aliases = [a \in {"Y"} |-> <<"A">>] /\ error_counters = <<>>
    /\ running = TRUE /\ log = "logger" /\ outbound_tx_queue = "tx_queue"
    /\ run_state = "running"
    /\ outQ = EmptyQueue /\ inQ = EmptyQueue /\ disp = DispIdle
    /\ ret = [op |-> "init", value |-> None]
    /\ emitted = <<>>
    /\ trace = <<>> /\ prevCount = 0
    /\ alias_handles = NoHandles /\ tasks = TasksRunning /\ failure = None /\ forwarded = <<>>
    /\ nextId = 0 /\ accepted = <<>> /\ handled = <<>> /\ finished = <<>>
    /\ calls = <<>>

\* Packets are sent and broadcast and every channel call returns or raises
\* one of the failures.
NextClassify ==
    \/ MayRoute /\ SendPacket
    \/ MayRoute /\ BroadcastPacket
    \/ DispatchNext
    \/ ChannelReturn
    \/ \E ex \in TxErrors : ChannelRaise(ex)

SpecClassify == InitClassify /\ [][NextClassify]_vars

(* ------------------------------------------------------ failure streaks *)

\* A running manager with one open connection "A" and an error limit small
\* enough to be passed and recovered from.
InitStreak ==
    /\ \E c \in Channels : entries = <<OpenEntry("A", TRUE, c)>>
    /\ inbound = <<InboundReading>>
    /\ error_limit \in 1..MaxLimit
    /\ broadcast_delay = 0
    /\ aliases = <<>> /\ error_counters = <<>>
    /\ running = TRUE /\ log = "logger" /\ outbound_tx_queue = "tx_queue"
    /\ run_state = "running"
    /\ outQ = EmptyQueue /\ inQ = EmptyQueue /\ disp = DispIdle
    /\ ret = [op |-> "init", value |-> None]
    /\ emitted = <<>>
    /\ trace = <<>> /\ prevCount = 0
    /\ alias_handles = NoHandles /\ tasks = TasksRunning /\ failure = None /\ forwarded = <<>>
    /\ nextId = 0 /\ accepted = <<>> /\ handled = <<>> /\ finished = <<>>
    /\ calls = <<>>

\* The callers submit up to MaxPackets packets, one at a time.
OneAtATime == outQ.data = <<>> /\ disp.pc = "idle"

\* Packets are sent and broadcast one after the other, every channel call
\* returns or raises, and the connection is lost and reopened during a call.
NextStreak ==
    \/ OneAtATime /\ SendPacket
    \/ OneAtATime /\ BroadcastPacket
    \/ DispatchNext
    \/ ChannelReturn
    \/ \E ex \in {"OSError:EHOSTUNREACH", "BrokenResourceError"} : ChannelRaise(ex)
    \/ InChannelCall /\ \E i \in 1..Len(entries) : InboundFail(i)
    \/ InChannelCall /\ \E i \in 1..Len(entries) : InboundOpen(i)

SpecStreak == InitStreak /\ [][NextStreak]_vars

(* --------------------------------------------------- arbitrary aliases *)

\* Names an alias can list as its targets: a registered name, the aliases
\* themselves and a name nobody knows.
TargetNames == {"A", "G", "X", "U"}

\* The target lists add_alias is given: nothing, one name, or two names
\* (the same name twice included).
AnyTargets ==
    {<<>>} \cup {<<n>> : n \in TargetNames} \cup {<<n, m>> : n, m \in TargetNames}

\* A running manager with two open connections "A" and the aliases "G" and
\* "X" registered with any target lists: aliases of themselves, of each
\* other, of unknown names.
InitCycle ==
    /\ \E c \in Channels :
          entries = <<OpenEntry("A", TRUE, c), OpenEntry("A", TRUE, "plain1")>>
    /\ inbound = <<InboundReading, InboundReading>>
    /\ error_limit = DefaultErrorLimit
    /\ broadcast_delay = 0
    /\ aliases \in [AliasNames -> AnyTargets]
    /\ error_counters = <<>>
    /\ running = TRUE /\ log = "logger" /\ outbound_tx_queue = "tx_queue"
    /\ run_state = "running"
    /\ outQ = EmptyQueue /\ inQ = EmptyQueue /\ disp = DispIdle
    /\ ret = [op |-> "init", value |-> None]
    /\ emitted = <<>>
    /\ trace = <<>> /\ prevCount = 0
    /\ alias_handles = NoHandles /\ tasks = TasksRunning /\ failure = None /\ forwarded = <<>>
    /\ nextId = 0 /\ accepted = <<>> /\ handled = <<>> /\ finished = <<>>
    /\ calls = <<>>

\* Packets are sent one after the other and every channel call returns.
NextCycle ==
    \/ OneInFlight /\ SendPacket
    \/ DispatchNext
    \/ ChannelReturn

SpecCycle == InitCycle /\ [][NextCycle]_vars

(* ---------------------------------------------------------------- claims *)

\* The ErrorAction the k-th consecutive error must produce under limit L.
ExpectedAction(k, L) ==
    IF k < L THEN LOG ELSE IF k = L THEN LOG_AND_SUSPEND ELSE SKIP_LOGGING

\* C1: starting from count 0, the k-th consecutive notify_error(L) returns LOG
\* for k < L, LOG_AND_SUSPEND for k = L only and SKIP_LOGGING for k > L;
\* reset_error_count returns true exactly when the count was non-zero, leaves
\* the count at 0, and the notify_error right after it is again the first of
\* a fresh sequence (count 1).
C1_NotifyErrorSequence ==
    /\ \A k \in 1..Len(trace) : trace[k] = ExpectedAction(k, error_limit)
    /\ Cardinality({k \in 1..Len(trace) : trace[k] = LOG_AND_SUSPEND}) <= 1
    /\ ret.op = "reset_error_count" =>
          /\ entries[1].error_count = 0
          /\ ret.value = (prevCount > 0)
    /\ (ret.op = "notify_error" /\ Len(trace) = 1) =>
          /\ entries[1].error_count = 1
          /\ ret.value = ExpectedAction(1, error_limit)

\* C1 witness: the count went past the limit (LOG.., LOG_AND_SUSPEND, SKIP..),
\* with at least one LOG before the suspension.
C1_Witness ==
    /\ error_limit >= 2
    /\ Len(trace) > error_limit
    /\ trace[Len(trace)] = SKIP_LOGGING
    /\ entries[1].error_count = Len(trace)

\* Names a caller may ask about: the registration names and one never used.
QueryNames == Names \cup {"U"}

\* C9: is_channel_open(name) is true iff some entry registered under name
\* has a channel; for a name with a single entry it is false while the
\* inbound task is not running (before the first attach, and again after
\* the task ended, on a failure included) and true from the attach until
\* the task ends.
C9_IsChannelOpen ==
    /\ \A n \in QueryNames :
          is_channel_open(n) <=>
              \E i \in 1..Len(entries) :
                  entries[i].name = n /\ entries[i].channel # None
    /\ \A i \in 1..Len(entries) :
          EntriesOf(entries[i].name) = {i} =>
              /\ inbound[i].pc = "stopped" => ~is_channel_open(entries[i].name)
              /\ inbound[i].pc \in {"reading", "blocked"} =>
                    is_channel_open(entries[i].name)

\* C9 witness: a single-entry name whose inbound task attached a channel and
\* then ended on a failure ("Connection down" is logged only after an attach).
C9_Witness ==
    \E i \in 1..Len(entries) :
        /\ EntriesOf(entries[i].name) = {i}
        /\ inbound[i].pc = "stopped"
        /\ ret = [op |-> "inbound", value |-> "failed"]
        /\ emitted = <<LogRec("warning", "Connection down, trying to reopen...")>>
        /\ ~is_channel_open(entries[i].name)

\* The shape of the registry: names, order and can_send flags.
Registry == [i \in 1..Len(entries) |-> <<entries[i].name, entries[i].can_send>>]

\* C10: from the start to the end of a run call no step changes the
\* registry, and an add made while the manager is running raises.
C10_RegistryFrozenWhileRunning ==
    /\ [][(running \/ running') => Registry' = Registry]_vars
    /\ [](running /\ ret.op = "add" => ret.value = "RuntimeError")

\* C10 witness: add was called on a running manager that has entries.
C10_Witness ==
    /\ running
    /\ Len(entries) >= 1
    /\ ret = [op |-> "add", value |-> "RuntimeError"]

\* s is a prefix of t.
IsPrefix(s, t) == Len(s) <= Len(t) /\ SubSeq(t, 1, Len(s)) = s

\* The packet ids of a sequence of queue items.
Ids(items) == [k \in 1..Len(items) |-> items[k].id]

\* The ids of the senders blocked on the outbound queue.
Waiting == {outQ.waiters[k].item.id : k \in 1..Len(outQ.waiters)}

\* C2: the dispatcher starts handling packets in exactly the order in which
\* the outbound queue accepted them, one at a time: a packet's handling
\* (all its channel calls and the delay after a broadcast) has finished
\* before the next packet's handling starts.
C2_DispatchInSubmissionOrder ==
    /\ IsPrefix(handled, accepted)
    /\ IsPrefix(finished, handled)
    /\ Len(handled) - Len(finished) \in {0, 1}
    /\ disp.pc \in {"all_await", "single_await", "sleep"} =>
          /\ Len(handled) = Len(finished) + 1
          /\ disp.item.id = handled[Len(handled)]
    /\ \A k \in 1..Len(calls) : calls[k].id = handled[Len(handled)]

\* C2 witness: the dispatcher has finished two packets and awaits a channel
\* call for a third while a later packet is queued.
C2_Witness ==
    /\ Len(finished) >= 2
    /\ disp.pc = "single_await"
    /\ calls # <<>>
    /\ outQ.data # <<>>

\* C3: a send_packet (or broadcast_packet) that finds the outbound queue full
\* is never dropped: the caller stays blocked, with the queue contents
\* unchanged, until the dispatcher removes a packet; the queue always holds
\* exactly the accepted packets not yet handled, each once; a blocked packet
\* stops waiting only by being accepted, and while the dispatcher keeps
\* draining, no packet waits forever.
C3_BlockedSendIsNotDropped ==
    /\ [](accepted = handled \o Ids(outQ.data))
    /\ [](\A j, k \in 1..Len(accepted) : accepted[j] = accepted[k] => j = k)
    /\ [](Waiting # {} => Len(outQ.data) = QueueCapacity)
    /\ [][\A id \in Waiting :
            /\ id \in Waiting' \/ (handled' # handled /\ accepted' = Append(accepted, id))
            /\ handled' = handled =>
                  outQ'.data = outQ.data /\ IsPrefix(outQ.waiters, outQ'.waiters)]_vars
    /\ (Waiting # {}) ~> (Waiting = {})

\* C3 witness: the dispatcher has just taken a packet from a full queue and
\* the packet of a blocked send_packet took the freed slot.
C3_Witness ==
    /\ ret = [op |-> "dispatcher", value |-> "received"]
    /\ Len(outQ.data) = QueueCapacity
    /\ accepted[Len(accepted)] = outQ.data[QueueCapacity].id
    /\ Len(outQ.data[QueueCapacity].destination) = 2
    /\ outQ.data[QueueCapacity].destination[2] = "addr"

\* The warning of a dropped enqueue_packet / enqueue_broadcast_packet.
DropWarnings ==
    {<<LogRec("warning", "Dropping outbound packet; outbound message queue is full")>>,
     <<LogRec("warning",
              "Dropping outbound broadcast packet; outbound message queue is full")>>}

\* C4: enqueue_packet and enqueue_broadcast_packet called on a full outbound
\* queue return normally without blocking, drop the packet, log exactly one
\* warning and leave the contents and the order of the queue unchanged.
C4_EnqueueOnFullQueueDrops ==
    [][(/\ nextId' = nextId + 1
        /\ ret'.op \in {"enqueue_packet", "enqueue_broadcast_packet"}
        /\ outbound_tx_queue # None
        /\ Len(outQ.data) = QueueCapacity)
       => (/\ ret'.value = None
           /\ outQ' = outQ
           /\ accepted' = accepted
           /\ emitted' \in DropWarnings
           /\ Len(emitted') = 1)]_vars

\* C4 witness: an enqueue_packet call has just been dropped with its warning
\* while a send_packet caller is blocked on the full queue.
C4_Witness ==
    /\ ret = [op |-> "enqueue_packet", value |-> None]
    /\ emitted \in DropWarnings
    /\ Len(outQ.data) = QueueCapacity
    /\ Waiting # {}
    /\ nextId \notin Waiting
    /\ \A k \in 1..Len(accepted) : accepted[k] # nextId

(* ------------------------------------------------------ outbound routing *)

\* The least element of a non-empty set of numbers.
MinOf(S) == CHOOSE x \in S : \A y \in S : x <= y

\* The packet the dispatcher is handling, or is about to receive.
CurrentItem == IF disp.pc = "idle" THEN Head(outQ.data) ELSE disp.item

\* This step is a step of the dispatcher in the dispatch of a packet with
\* the given destination: its start, or the end of a channel call.
Dispatching(destination) ==
    /\ IF disp.pc = "idle" THEN handled' # handled
       ELSE disp.pc # "off" /\ disp'.pc # "off" /\ disp' # disp
    /\ CurrentItem.destination = destination

\* The calls made so far in the dispatch this step belongs to.
CallsSoFar == IF disp.pc = "idle" THEN <<>> ELSE calls

\* The record of one channel call.
CallRec(e, kind, address) ==
    [id |-> CurrentItem.id, entry |-> e, channel |-> entries[e].channel,
     kind |-> kind, arg |-> <<"packet", address>>]

\* This step ends the dispatch: the dispatcher returns to the queue with no
\* further call.
DispatchEnds ==
    /\ disp'.pc = "idle"
    /\ calls' = CallsSoFar
    /\ finished' = Append(finished, CurrentItem.id)

\* The step makes its next send, from position from on, on the first open,
\* send-capable entry of the sequence fan, and ends the dispatch when there
\* is none.
SendsToNextOf(fan, from, address) ==
    LET cand == {k \in from..Len(fan) : is_open(entries[fan[k]]) /\ entries[fan[k]].can_send}
    IN  IF cand = {} THEN DispatchEnds
        ELSE /\ disp'.pc = "single_await"
             /\ calls' = Append(CallsSoFar, CallRec(fan[MinOf(cand)], "send", address))

\* The position after the entry of the pending call in the sequence fan.
NextPosition(fan) ==
    IF disp.pc = "idle" THEN 1
    ELSE 1 + MinOf({k \in 1..Len(fan) : fan[k] = calls[Len(calls)].entry})

\* C5 (as claimed): dispatching a packet to a name with no registry entry and
\* no alias sends nothing, raises nothing, lets the dispatcher go on to the
\* next packet, and increases the per-name failure counter of that name by
\* one.
C5_UnknownNameCountsAsFailure ==
    [][\A address \in Addresses :
          Dispatching(<<"U", address>>) =>
             /\ DispatchEnds
             /\ calls' = <<>>
             /\ error_counters' =
                  SetCounter(error_counters, "U", Counter(error_counters, "U") + 1)]_vars

\* The entries of A, then the entries of B.
FanOut == EntrySeq("A") \o EntrySeq("B")

\* C6: with alias G for [A, B], the dispatch of (G, addr) sends on each open,
\* send-capable entry of A and then of B, in registration order, one call
\* after the other, whether the previous call returned or raised.
C6_AliasFansOutInOrder ==
    [][Dispatching(<<"G", "addr">>) =>
          SendsToNextOf(FanOut, NextPosition(FanOut), "addr")]_vars

\* A send on an entry of A has just raised, and the dispatch of (G, addr)
\* now sends on the entry of B, after both entries of A.
C6_Witness ==
    /\ disp.pc = "single_await"
    /\ disp.item.destination = <<"G", "addr">>
    /\ ret.value \in TxErrors
    /\ [k \in 1..Len(calls) |-> calls[k].entry] = FanOut
    /\ Len(FanOut) = 3

\* The entries the single target Y of alias X resolves to: Y is an alias of A.
ResolvedY == EntrySeq("A")

\* C7 (as claimed): with alias X for [Y], where Y is not a registry name but
\* an alias, the dispatch of (X, addr) sends on the open, send-capable
\* entries that Y resolves to.
C7_AliasOfAliasDelivers ==
    [][Dispatching(<<"X", "addr">>) =>
          SendsToNextOf(ResolvedY, NextPosition(ResolvedY), "addr")]_vars

\* The warning of a dispatch that found no entry under the name.
NoSuitableChannel == LogRec("warning", "Dropping outbound message, no suitable channel")

\* C7 (amended): the single target of an alias is looked up in the registry
\* only. With alias X for [Y], where Y is not a registry name, the dispatch
\* of (X, address) calls no channel and changes no entry, whatever Y is an
\* alias of; it counts as a failed send to Y: the failure counter of Y grows
\* by one and, for a unicast address and a counter within the error limit,
\* the "no suitable channel" warning is logged.
C7_AliasResolutionIsSingleLevel ==
    [][\A address \in Addresses :
          Dispatching(<<"X", address>>) =>
             LET c == Counter(error_counters, "Y") + 1
             IN  /\ DispatchEnds
                 /\ calls' = <<>>
                 /\ entries' = entries
                 /\ error_counters' = SetCounter(error_counters, "Y", c)
                 /\ emitted' = IF address # BROADCAST /\ c <= error_limit
                               THEN <<NoSuitableChannel>> ELSE <<>>]_vars

\* A packet for X has been dispatched twice while an entry of A, which Y is
\* an alias of, was open and send-capable: no call was made.
C7_Witness ==
    /\ Counter(error_counters, "Y") = 2
    /\ alias_targets("X") = <<"Y">> /\ alias_targets("Y") = <<"A">>
    /\ \E k \in 1..Len(ResolvedY) :
          is_open(entries[ResolvedY[k]]) /\ entries[ResolvedY[k]].can_send
    /\ ret = [op |-> "dispatcher", value |-> "received"]
    /\ disp.pc = "idle"
    /\ calls = <<>>
    /\ emitted = <<NoSuitableChannel>>

\* The step makes its next broadcast, from position from on in the iteration
\* over all entries, on the first entry that can broadcast, and ends the
\* dispatch when there is none.
BroadcastsToNext(from) ==
    LET cand == {k \in from..Len(IterEntries) : entries[IterEntries[k]].can_broadcast}
    IN  IF cand = {} THEN DispatchEnds
        ELSE /\ disp'.pc = "all_await"
             /\ disp'.index = MinOf(cand)
             /\ calls' = Append(CallsSoFar,
                                CallRec(IterEntries[MinOf(cand)], "broadcast", BROADCAST))

\* C8: the dispatch of a packet broadcast to everyone visits every entry
\* once, in iteration order, and calls broadcast with (packet, BROADCAST) on
\* each entry that can broadcast when visited and nothing on the others; a
\* call that raises is passed over like one that returns: no entry, counter
\* or log record changes, and the dispatch goes on with the next entry.
C8_BroadcastReachesEveryBroadcaster ==
    /\ [][Dispatching(Everyone) =>
             /\ BroadcastsToNext(IF disp.pc = "idle" THEN 1 ELSE disp.index + 1)
             /\ entries' = entries
             /\ error_counters' = error_counters
             /\ emitted' = <<>>]_vars
    /\ [](disp.pc = "all_await" =>
             \A j, k \in 1..Len(calls) : j # k => calls[j].entry # calls[k].entry)

\* A broadcast to everyone has called all three entries, the second of which
\* is not send-capable, and has ended although the last call raised; nothing
\* was counted.
C8_Witness ==
    /\ disp.pc = "idle"
    /\ ret.value \in TxErrors
    /\ Len(calls) = 3
    /\ \A k \in 1..3 : calls[k].kind = "broadcast" /\ calls[k].arg = <<"packet", BROADCAST>>
    /\ ~entries[2].can_send
    /\ \A i \in 1..Len(entries) : entries[i].error_count = 0
    /\ error_counters = <<>>

(* ------------------------------------------------------------ alias table *)

\* The step is the alias operation op on an alias that is registered.
AliasOpOnRegistered(ops) ==
    /\ ret'.op \in ops
    /\ ret'.alias \in DOMAIN aliases

\* C11: add_alias (alone or on entering a with_alias scope) on a registered
\* alias raises and leaves the whole alias table as it is; the disposer of
\* an alias, and the exit of its with_alias scope whether the body returned
\* or raised, remove that alias from the table and nothing else.
C11_DuplicateAliasRejectedDisposerRemoves ==
    /\ [][AliasOpOnRegistered({"add_alias", "with_alias enter"}) =>
             ret'.value = "RuntimeError" /\ aliases' = aliases]_vars
    /\ [][AliasOpOnRegistered({"disposer", "with_alias exit"}) =>
             aliases' = Without(aliases, ret'.alias)]_vars

\* The with_alias scope of X has just been left by an exception of its body:
\* X is gone and G, registered by add_alias, keeps its targets.
C11_Witness ==
    /\ ret = [op |-> "with_alias exit", value |-> "Exception", alias |-> "X"]
    /\ DOMAIN aliases = {"G"} /\ aliases["G"] = <<"A", "B">>
    /\ alias_handles = [disposers |-> {"G"}, scopes |-> {}]

(* ------------------------------------ submissions around the run's ends *)

\* The four submission methods.
SubmitOps == {"send_packet", "enqueue_packet", "broadcast_packet",
              "enqueue_broadcast_packet"}

\* The step is a call of one of the methods ops while the dispatcher, and
\* with it the outbound queue, is not running.
SubmitsWhileStopped(ops) ==
    /\ disp.pc = "off"
    /\ nextId' # nextId
    /\ ret'.op \in ops

\* The call enqueued nothing, logged nothing and left the manager as it was.
NothingHappened ==
    /\ emitted' = <<>>
    /\ UNCHANGED <<entries, mgrVars, inbound, inQ, disp, accepted, handled, finished>>

\* C12 (as claimed): a submission by any of the four methods while the
\* outbound queue is not running raises the closed-resource error when
\* failure tolerance is not requested and returns silently when it is; it
\* enqueues nothing and changes nothing.
C12_StoppedQueueAllMethods ==
    [][SubmitsWhileStopped(SubmitOps) =>
          /\ ret'.value = IF ret'.allow_failure THEN None ELSE "BrokenResourceError"
          /\ NothingHappened]_vars

\* C12 (amended): the same for broadcast_packet and enqueue_broadcast_packet;
\* send_packet and enqueue_packet take no failure-tolerance flag: called as
\* declared they always raise the closed-resource error, and a call that
\* passes the flag is refused with TypeError; nothing is enqueued either way.
C12_StoppedQueueSubmission ==
    /\ [][SubmitsWhileStopped({"broadcast_packet", "enqueue_broadcast_packet"}) =>
             /\ ret'.value = IF ret'.allow_failure THEN None ELSE "BrokenResourceError"
             /\ NothingHappened]_vars
    /\ [][SubmitsWhileStopped({"send_packet", "enqueue_packet"}) =>
             /\ ret'.value = IF ret'.allow_failure THEN "TypeError"
                             ELSE "BrokenResourceError"
             /\ NothingHappened]_vars
    /\ [](disp.pc = "off" <=> outbound_tx_queue = None)

\* After a run in which a packet was accepted and handled, the dispatcher
\* has stopped and a tolerant enqueue_broadcast_packet has returned silently.
C12_Witness ==
    /\ disp.pc = "off"
    /\ handled # <<>>
    /\ ret = [op |-> "enqueue_broadcast_packet", value |-> None, allow_failure |-> TRUE]
    /\ outQ = EmptyQueue

(* ------------------------------------------- dispatch over failing links *)

\* The step is the end of a channel call by an exception.
CallRaises ==
    /\ disp.pc \in {"all_await", "single_await"}
    /\ disp' # disp
    /\ ret'.op = "dispatcher" /\ ret'.value \in TxErrors

\* C13: while the manager runs the dispatcher task never ends and run() is
\* not failed by it; every call is made on a channel that is attached at
\* that moment, whatever the inbound tasks did before; when a call raises,
\* the queue and the senders waiting on it are untouched and the dispatcher
\* goes on with a later entry of the same packet or, after the last one,
\* returns to the queue; and as long as a packet is queued or in dispatch
\* the dispatcher has a next step to take, so that every packet queued
\* behind a failing one gets dispatched.
C13_TransportErrorsNeverStopDispatch ==
    /\ [](disp.pc # "off" /\ run_state = "running" /\ failure = None)
    /\ [](calls # <<>> => calls[Len(calls)].channel # None)
    /\ [][CallRaises =>
             /\ outQ' = outQ /\ accepted' = accepted
             /\ IF disp'.pc = "idle"
                THEN calls' = calls /\ finished' = Append(finished, disp.item.id)
                ELSE /\ disp'.pc \in {"all_await", "single_await"}
                     /\ disp'.item = disp.item
                     /\ Len(calls') = Len(calls) + 1
                     /\ calls'[Len(calls')].entry > calls[Len(calls)].entry]_vars
    /\ [](finished # accepted => ENABLED DispatcherStep)

\* The send on the first entry of A has just raised and was counted; the
\* dispatcher is now sending on the second entry while another packet
\* waits in the queue.
C13_Witness ==
    /\ ret.op = "dispatcher" /\ ret.value \in TxErrors
    /\ disp.pc = "single_await"
    /\ [k \in 1..Len(calls) |-> calls[k].entry] = <<1, 2>>
    /\ entries[1].error_count = 1
    /\ outQ.data # <<>>

(* ------------------------------------------------------- run() as a whole *)

\* Every task run() started has ended.
AllTasksEnded ==
    /\ disp.pc = "off"
    /\ \A i \in 1..Len(inbound) : inbound[i].pc = "stopped"
    /\ \A t \in Tasks : tasks[t] # "running"

\* Nothing of a run is left: flag, logger, queue handle, queues, channels.
TornDown ==
    /\ ~running /\ log = None
    /\ outbound_tx_queue = None
    /\ inQ = EmptyQueue /\ outQ = EmptyQueue
    /\ \A i \in 1..Len(entries) : ~is_open(entries[i])

\* C14: run() ends only when the dispatcher, every inbound task, the consumer
\* and the auxiliary task have ended, and it raises the first failure (or the
\* cancellation) that started the unwinding; from that failure on, no task
\* does anything but end; whenever run() is not in progress the running
\* flag and the logger are cleared, both queues are empty and closed and the
\* outbound queue handle is cleared, and a submission is refused.
C14_RunJoinsAndTearsDown ==
    /\ [][run_state # "idle" /\ run_state' = "idle" =>
             /\ AllTasksEnded
             /\ failure # None
             /\ ret' = [op |-> "run", value |-> failure]]_vars
    /\ [][run_state = "cancelling" /\ run_state' = "cancelling" =>
             /\ failure' = failure
             /\ handled' = handled /\ inQ'.data = inQ.data
             /\ disp' \in {disp, DispOff}
             /\ \A i \in 1..Len(inbound) : inbound'[i].pc \in {inbound[i].pc, "stopped"}
             /\ \A t \in Tasks : tasks'[t] \in {tasks[t], "cancelled"}]_vars
    /\ [](failure # None <=> run_state = "cancelling")
    /\ [](run_state = "idle" => AllTasksEnded /\ TornDown)
    /\ [][run_state = "idle" /\ nextId' # nextId =>
             /\ ret'.value = "BrokenResourceError"
             /\ accepted' = accepted /\ outQ' = outQ]_vars

\* run() has just raised the consumer's exception, after a run in which a
\* channel was attached, a message was forwarded and a packet was accepted.
C14_Witness ==
    /\ ret = [op |-> "run", value |-> "Error in consumer"]
    /\ run_state = "idle"
    /\ inbound[1].seq > 0
    /\ accepted # <<>>
    /\ TornDown

\* The items put into the inbound queue that carry a name, in order.
Tagged(name) == SelectSeq(forwarded, LAMBDA item : item.name = name)

\* The items the inbound task of entry i has put into the inbound queue.
PutBy(i) == SelectSeq(forwarded, LAMBDA item : item.entry = i)

\* The messages the channels of entry i have produced, as queue items.
Produced(i) ==
    [k \in 1..inbound[i].seq |-> [name |-> entries[i].name, entry |-> i, seq |-> k]]

CallReturns == InChannelCall /\ ret' = [op |-> "dispatcher", value |-> "call returned"]

\* Every change of an entry's channel reference leaves its error count at 0.
ChannelChangeResets ==
    \A i \in 1..Len(entries) :
        entries'[i].channel # entries[i].channel => entries'[i].error_count = 0

\* set_channel with the reference the entry already holds (detach of an
\* entry without a channel included) changes nothing in the entry.
SameChannelIsNoOp ==
    ret'.op \in {"set_channel", "inbound"} =>
        \A i \in 1..Len(entries) :
            entries'[i].channel = entries[i].channel => entries'[i] = entries[i]

SendFails(ex) ==
    /\ disp.pc = "single_await"
    /\ ret' = [op |-> "dispatcher", value |-> ex]

\* The records _handle_tx_error wrote in the step that has just ended
\* (the "dropping message" warning comes from the dispatch, not from it).
ErrorLog(records) ==
    SelectSeq(records, LAMBDA r :
        r.msg \notin {"Dropping outbound message, sending failed on all channels",
                      "Dropping outbound message, no suitable channel"})

SuspendWarning ==
    LogRec("warning", "Error reporting suspended until the connection recovers")

\* C17: a failed send advances the entry's error count by exactly one,
\* whatever the failure; the failure is logged iff the new count is within
\* the error limit and the suspension is announced iff it equals the limit;
\* the handler leaves the entry in the same state and makes the same
\* decision for every kind of failure, and a "network unreachable" failure
\* differs only in its message (an error record, no stack trace).
C17_EveryFailureCounts ==
    [][\A ex \in TxErrors : SendFails(ex) =>
          LET e == CurrentEntry
              c == entries[e].error_count + 1
              written == ErrorLog(emitted')
          IN  /\ entries'[e].error_count = c
              /\ written = <<>> <=> c > error_limit
              /\ (\E k \in 1..Len(written) : written[k] = SuspendWarning)
                    <=> c = error_limit
              /\ \A other \in TxErrors :
                    LET h == handle_tx_error(entries[e], other, error_limit)
                    IN  /\ h.entry = entries'[e]
                        /\ h.emitted = <<>> <=> written = <<>>
                        /\ (\E k \in 1..Len(h.emitted) : h.emitted[k] = SuspendWarning)
                              <=> c = error_limit
              /\ ex = "OSError:ENETUNREACH" /\ c <= error_limit =>
                    /\ written[1] = LogRec("error", "Network is down or unreachable")
                    /\ \A k \in 1..Len(written) : written[k].level # "exception"]_vars

\* A "network unreachable" failure has brought the first entry to the error
\* limit after a failure of another kind: the benign message is followed by
\* the announcement of the suspension.
C17_Witness ==
    /\ ret = [op |-> "dispatcher", value |-> "OSError:ENETUNREACH"]
    /\ error_limit = 2
    /\ entries[1].error_count = error_limit
    /\ emitted = <<LogRec("error", "Network is down or unreachable"), SuspendWarning>>

\* The entries that are open and send-capable now.
OpenSenders == {i \in 1..Len(entries) : is_open(entries[i]) /\ entries[i].can_send}

\* The entries a packet for the address can be attempted on now: open,
\* send-capable and, for the BROADCAST address, able to broadcast.
Attemptable(address) ==
    {i \in OpenSenders : address = BROADCAST => entries[i].can_broadcast}

\* The step makes the next attempt of the dispatch, from position from on in
\* the sequence fan, on the first entry that is in the set ok, calling send
\* for a unicast address and broadcast for BROADCAST, and makes no further
\* call when there is none.
AttemptsNextOf(fan, from, address, ok) ==
    LET cand == {k \in from..Len(fan) : fan[k] \in ok}
        kind == IF address = BROADCAST THEN "broadcast" ELSE "send"
    IN  IF cand = {} THEN DispatchEnds
        ELSE /\ disp'.pc = "single_await"
             /\ calls' = Append(CallsSoFar, CallRec(fan[MinOf(cand)], kind, address))

\* No entry is called twice in one dispatch to a name.
OneAttemptPerEntry ==
    [](disp.pc = "single_await" =>
          \A j, k \in 1..Len(calls) : j # k => calls[j].entry # calls[k].entry)

\* C18 as stated: the dispatch of a packet to a name with several entries
\* attempts it, in registration order and whether or not an earlier attempt
\* succeeded, once on every entry that is open and send-capable when the
\* loop reaches it, and on no other entry.
C18_EveryOpenSenderAttempted ==
    /\ [][\A name \in Names, address \in Addresses :
             Dispatching(<<name, address>>) =>
                AttemptsNextOf(EntrySeq(name), NextPosition(EntrySeq(name)),
                               address, OpenSenders)]_vars
    /\ OneAttemptPerEntry

\* C18: the same, where for a packet with the BROADCAST address the entries
\* attempted are those that are open, send-capable and able to broadcast:
\* an open, send-capable entry whose channel cannot broadcast receives no
\* attempt.
C18_EveryEligibleEntryAttempted ==
    /\ [][\A name \in Names, address \in Addresses :
             Dispatching(<<name, address>>) =>
                AttemptsNextOf(EntrySeq(name), NextPosition(EntrySeq(name)),
                               address, Attemptable(address))]_vars
    /\ OneAttemptPerEntry

\* The send on the first entry of A has returned and the same packet is now
\* being sent on the second entry of A.
C18_Witness ==
    /\ disp.pc = "single_await"
    /\ disp.item.destination = <<"A", "addr">>
    /\ ret = [op |-> "dispatcher", value |-> "call returned"]
    /\ [k \in 1..Len(calls) |-> calls[k].entry] = EntrySeq("A")
    /\ Len(EntrySeq("A")) = 2

\* The warning of a dispatch that failed on every entry of the name.
FailedOnAll ==
    LogRec("warning", "Dropping outbound message, sending failed on all channels")

\* The step logs the warning of a dropped message.
LogsDrop == \E k \in 1..Len(emitted') : emitted'[k] = FailedOnAll

\* A call of the dispatch this step belongs to has returned normally, in
\* this step or before it.
SomeAttemptSucceeded ==
    /\ disp.pc # "idle"
    /\ disp.sent \/ ret' = [op |-> "dispatcher", value |-> "call returned"]

\* The step the dispatch of a packet for (name, address) ends with leaves
\* the failure counter of the name target at 0 after a success, and else
\* one higher, with the warning logged iff warns(c) for the new value c;
\* the steps before it leave the counters alone.
CountsDispatch(name, address, target, limited) ==
    Dispatching(<<name, address>>) =>
        LET c == Counter(error_counters, target) + 1
        IN  IF disp'.pc # "idle" THEN error_counters' = error_counters
            ELSE IF SomeAttemptSucceeded
            THEN error_counters' = SetCounter(error_counters, target, 0) /\ ~LogsDrop
            ELSE /\ error_counters' = SetCounter(error_counters, target, c)
                 /\ LogsDrop <=> (limited /\ c <= error_limit)

\* C19 as stated: after the dispatch of a packet to a name with registry
\* entries (A, or its alias Y) the failure counter of the name is 0 if an
\* attempt succeeded, and else one higher than before, with a "dropping
\* message" warning logged iff the new value is within the error limit.
C19_DropWarningWithinLimit ==
    [][\A name \in {"A", "Y"}, address \in Addresses :
          CountsDispatch(name, address, "A", TRUE)]_vars

\* C19: the same, where the warning is logged iff the new value is within
\* the error limit and the packet's address is not the BROADCAST address: a
\* failed dispatch of a broadcast to the name counts but is never announced.
\* As the counter grows by one with every failed dispatch and returns to 0
\* only with a successful one, at most error_limit warnings are logged for
\* the name between two successful dispatches.
C19_NameCounterAndDropWarning ==
    [][\A name \in {"A", "Y"}, address \in Addresses :
          CountsDispatch(name, address, "A", address # BROADCAST)]_vars

\* The second failed dispatch to A in a row, with an error limit of 1: the
\* counter has passed the limit and no warning was logged.
C19_Witness ==
    /\ error_limit = 1
    /\ Counter(error_counters, "A") = 2
    /\ disp.pc = "idle" /\ Len(finished) = 2
    /\ ret.op = "dispatcher" /\ ret.value \in TxErrors
    /\ handled = <<1, 2>>
    /\ \A k \in 1..Len(emitted) : emitted[k] # FailedOnAll

\* The report of a lost connection.
ConnectionDown == LogRec("warning", "Connection down, trying to reopen...")

\* The step logs that the connection is down.
ReportsDown == \E k \in 1..Len(emitted') : emitted'[k] = ConnectionDown

\* An inbound task ends with a failure in this step.
InboundTaskFails == ret' = [op |-> "inbound", value |-> "failed"]

\* The failing task had created its channel: it leaves the state "reading"
\* or "blocked"; a task the channel factory failed in was not in them.
ChannelWasCreated ==
    \E i \in 1..Len(inbound) : inbound[i].pc # "stopped" /\ inbound'[i].pc = "stopped"

\* The failure stays inside the inbound task: every task back in the hands
\* of its supervisor has no channel attached, and the run and the other
\* tasks go on.
HandedBackDetached ==
    /\ \A i \in 1..Len(inbound) :
          inbound'[i].pc = "stopped" => ~is_open(entries'[i])
    /\ \A i \in 1..Len(inbound) :
          inbound'[i].pc # "stopped" => inbound'[i] = inbound[i] /\ entries'[i] = entries[i]
    /\ UNCHANGED <<run_state, failure, tasks, running, disp>>

\* C20 as stated: in every failure of an inbound task the connection is
\* reported down in the log, the entry's channel is detached when control
\* returns to the supervisor, and the failure does not leave the task.
C20_EveryFailureReportedDown ==
    [][InboundTaskFails => ReportsDown /\ HandedBackDetached]_vars

\* C20: in every failure of an inbound task the entry's channel is detached
\* when control returns to the supervisor and the failure does not leave
\* the task; the connection is reported down iff the task had created its
\* channel: a failure of the channel factory is logged as an exception at
\* most (not at all for a closed or broken resource), never as a connection
\* that is down. No failure is reported as a closed connection.
C20_InboundFailureIsContained ==
    [][InboundTaskFails =>
          /\ ReportsDown <=> ChannelWasCreated
          /\ ReportsDown => emitted'[Len(emitted')] = ConnectionDown
          /\ \A k \in 1..Len(emitted') :
                emitted'[k] # LogRec("info", "Connection closed")
          /\ HandedBackDetached]_vars

\* The consumer has closed its end of the inbound queue and the first
\* task's suspended send has failed: the connection was reported down, the
\* channel is detached and the task is back with its supervisor, while the
\* run goes on.
C20_Witness ==
    /\ ret = [op |-> "inbound", value |-> "failed"]
    /\ tasks["consumer"] = "closed"
    /\ inbound[1].pc = "stopped" /\ inbound[1].seq = Len(PutBy(1)) + 1
    /\ ~is_open(entries[1])
    /\ emitted = <<ConnectionDown>>
    /\ run_state = "running" /\ failure = None

\* The number of records of a sequence that announce the suspension.
Notices(records) ==
    Cardinality({k \in 1..Len(records) : records[k] = SuspendWarning})

\* The pending call of a dispatch to a name raises in this step.
SomeSendFails == \E ex \in TxErrors : SendFails(ex)

C22_AliasTargetsNonEmpty ==
    \A alias \in DOMAIN aliases : aliases[alias] # <<>>

\* The record of an entry's recovery.
Resumed == LogRec("info", "Channel resumed normal operation")

\* C23 (as claimed): during a dispatch to a name the error count of an entry
\* is reset, and its recovery logged, only in the step in which a send or
\* broadcast through that same entry returns without exception; every other
\* entry of the name keeps its count, whatever happened on the entries
\* before it.
C23_ResetOnlyAfterOwnSuccess ==
    [][/\ \A i \in 1..Len(entries) :
             /\ entries'[i].channel = entries[i].channel
             /\ entries'[i].error_count < entries[i].error_count
             => CallReturns /\ disp.pc = "single_await" /\ CurrentEntry = i
       /\ Cardinality({k \in 1..Len(emitted') : emitted'[k] = Resumed}) <=
             (IF CallReturns /\ disp.pc = "single_await"
                 /\ entries[CurrentEntry].error_count > 0 THEN 1 ELSE 0)]_vars

\* C24: in every state an entry can broadcast only if it has a channel, and
\* then its channel is a broadcast channel, however the attaching and
\* detaching of channels interleaves with the dispatcher; every channel
\* call of the dispatcher was made on a channel that was attached when the
\* call started, and every broadcast on a broadcast channel.
C24_BroadcastNeedsChannel ==
    /\ \A i \in 1..Len(entries) :
          /\ entries[i].can_broadcast => is_open(entries[i])
          /\ entries[i].can_broadcast <=> entries[i].channel \in BroadcastChannels
    /\ \A k \in 1..Len(calls) :
          /\ calls[k].channel # None
          /\ calls[k].kind = "broadcast" => calls[k].channel \in BroadcastChannels

\* A broadcast to everyone is waiting in the broadcast call of a channel
\* that the entry has lost in the meantime: the entry can no longer
\* broadcast.
C24_Witness ==
    /\ disp.pc = "all_await"
    /\ calls[Len(calls)] = [id |-> disp.item.id, entry |-> 1, channel |-> "bcast1",
                            kind |-> "broadcast", arg |-> <<"packet", BROADCAST>>]
    /\ ~is_open(entries[1]) /\ ~entries[1].can_broadcast
    /\ ret = [op |-> "inbound", value |-> "failed"]

\* The dispatcher is handling a packet.
InDispatch == disp.pc \notin {"off", "idle"}

\* The targets the name of the packet in hand stands for after one level
\* of alias resolution: the name itself when it is registered, else the
\* targets of the alias of that name, in order and with repetitions.
OneLevel(name) ==
    IF EntrySeq(name) # <<>> THEN <<name>>
    ELSE IF name \in DOMAIN aliases THEN aliases[name] ELSE <<>>

\* The registry entries reachable from a name through one level of alias
\* targets.
Reachable(name) ==
    {i \in 1..Len(entries) :
        \E k \in 1..Len(OneLevel(name)) : entries[i].name = OneLevel(name)[k]}

\* The number of entries of the names of a list, a name listed twice
\* counting twice.
RECURSIVE EntriesListed(_)
EntriesListed(targets) ==
    IF targets = <<>> THEN 0
    ELSE Len(EntrySeq(Head(targets))) + EntriesListed(Tail(targets))

\* Every step of a dispatch either makes one more channel call or ends the
\* dispatch, and a dispatcher that has not ended it is waiting in a channel
\* call, whose return it can take (the guard of ChannelReturn): with a bound
\* on the calls, the dispatch ends.
DispatchAdvances ==
    /\ [][\A name \in TargetNames, address \in Addresses :
             Dispatching(<<name, address>>) =>
                \/ DispatchEnds
                \/ InChannelCall' /\ Len(calls') = Len(CallsSoFar) + 1]_vars
    /\ [](InDispatch => InChannelCall /\ run_state = "running")

\* C25 as stated: whatever the alias table holds, the dispatch of a packet
\* ends when every channel call returns, after at most as many send
\* attempts as there are registry entries reachable through one level of
\* alias targets.
C25_AttemptsBoundedByReachableEntries ==
    /\ DispatchAdvances
    /\ [](InDispatch =>
             Len(calls) <= Cardinality(Reachable(disp.item.destination[1])))

\* C25: whatever the alias table holds, the dispatch of a packet ends when
\* every channel call returns, after at most one send attempt per entry of
\* each name in the target list, where a name the alias lists twice has its
\* entries attempted twice; no alias is followed beyond its own target
\* list, so aliases of themselves or of each other are passed over.
C25_DispatchTerminates ==
    /\ DispatchAdvances
    /\ [](InDispatch =>
             /\ Len(calls) <= EntriesListed(OneLevel(disp.item.destination[1]))
             /\ \A k \in 1..Len(calls) :
                   calls[k].entry \in Reachable(disp.item.destination[1]))

\* G lists itself and A, X lists G: the dispatch of a packet for G has
\* passed over G and is in its last call, on the second entry of A.
C25_Witness ==
    /\ aliases["G"] = <<"G", "A">> /\ aliases["X"] = <<"G">>
    /\ disp.pc = "single_await"
    /\ disp.item.destination = <<"G", "addr">>
    /\ [k \in 1..Len(calls) |-> calls[k].entry] = EntrySeq("A")
    /\ ret = [op |-> "dispatcher", value |-> "call returned"]

====
